---- MODULE Spec2Model ----
(***************************************************************************)
(* pack: the trust verification engine of the package installer.           *)
(*                                                                         *)
(* One remote source repository publishes key documents (keys/pack.box,    *)
(* keys/pack_v<n>.box, keys/pack.pub) that its maintainer rotates with the *)
(* rotate_keys tool.  The client keeps one cache entry for that source     *)
(* (<hash>.box, legacy <hash>.pub) and verifies detached Ed25519           *)
(* signatures against the chain of candidate keys.                         *)
(***************************************************************************)
EXTENDS Integers, Sequences, FiniteSets, TLC

\* ------------------------------------------------------------------ bounds
\* Number of key pairs the maintainer generates (rotations) in one behaviour.
MaxKeys == 3
\* Largest version number the maintainer passes explicitly to rotate_keys.
MaxVersion == 4
\* Number of hand edits of keys/pack.box in one behaviour.
MaxEdits == 1
\* Length of the recipes hashed, in symbols.
MaxRecipeLen == 4
\* Length of the values of a lock file, in symbols.
MaxValueLen == 3
\* Number of field lines of a lock file an older version wrote.
MaxLockLines == 2
\* Number of packages that can have a lock file.
MaxPackages == 3
\* Number of lines of the recipes a repository serves.
MaxRecipeLines == 2

\* ------------------------------------------------------- program constants
\* fetchPreviousKeyVersions: "Try to fetch up to 3 previous versions".
Lookback == 3
\* ed25519.PublicKeySize, the size verifySignatureWithKey expects.
PublicKeySize == 32
\* fetchKeyMetadata / fetchLegacyPublicKey: len(key) != 44 is rejected.
KeyTextLen == 44
\* Length of the abbreviated commit id.
AbbrevLen == 8

\* --------------------------------------------------------------- key texts
\* A key text is the base64 string found in a key document.  `id` names the
\* key pair (0: a key pair the source never generated), `len` is the length
\* of the text, `eq` whether it ends in "=", `b64` whether it is valid
\* base64 and `size` the number of bytes it decodes to.
Key(n) == [id |-> n, len |-> KeyTextLen, eq |-> TRUE, b64 |-> TRUE, size |-> PublicKeySize]
\* 44 characters ending in "=" but holding a character outside the alphabet.
Bad44 == [id |-> 0, len |-> KeyTextLen, eq |-> TRUE, b64 |-> FALSE, size |-> 0]
\* 44 characters ending in "==": valid base64 of 31 bytes.
Pad31 == [id |-> 0, len |-> KeyTextLen, eq |-> TRUE, b64 |-> TRUE, size |-> PublicKeySize - 1]
\* "AAAA": valid base64 of 3 bytes.
Tiny == [id |-> 0, len |-> 4, eq |-> FALSE, b64 |-> TRUE, size |-> 3]
Malformed == {Bad44, Pad31, Tiny}
NoKey == [id |-> 0, len |-> 0, eq |-> FALSE, b64 |-> TRUE, size |-> 0]

\* ----------------------------------------------------------- key documents
\* A key document (KeyMetadata): version and key; `file` tells whether the
\* file exists ("none"), exists with a parsable content ("doc") or exists
\* with no parsable key ("torn": an empty file).
Doc(v, k) == [file |-> "doc", version |-> v, key |-> k]
NoDoc == [file |-> "none", version |-> 0, key |-> NoKey]
TornDoc == [file |-> "torn", version |-> 0, key |-> NoKey]

\* ------------------------------------------------------------- signatures
\* A detached signature as downloaded: `signer` is the key pair that made
\* it, `over` whether it was made over the recipe bytes being verified,
\* `shape` the encoding of the .sig file: "ok" (base64 of 64 bytes),
\* "notb64" (not base64), "trunc" (base64 of fewer than 64 bytes).
Sig(s, o, sh) == [signer |-> s, over |-> o, shape |-> sh]
NoSig == Sig(0, FALSE, "none")

VARIABLES
  srvBox,      \* keys/pack.box of the source
  srvPrev,     \* keys/pack_v<n>.box of the source, n \in 0..MaxVersion
  srvPub,      \* keys/pack.pub of the source (a key text, or NoKey)
  nextKey,     \* the id of the next key pair ed25519.GenerateKey returns
  edits,       \* hand edits made so far
  cacheBox,    \* ~/.pack/cache/keys/<hash>.box
  cacheStale,  \* the .box cache file is older than 24 hours
  pc,          \* position of the main goroutine
  vsrc,        \* sourceRepo of the verification in progress
  vsig,        \* the signature being verified
  vmeta,       \* metadata fetched by step 2 of verifyWithKeyChain
  vlog,        \* fetches and tries of the verification, in order
  vres,        \* outcome of the verification
  fret,        \* the fetchPublicKeyFromRepo call in progress
  bgPc,        \* position of the backgroundKeyRefresh goroutine
  bgDoc,       \* the record backgroundKeyRefresh is about to cache
  flow,        \* the install, update or uninstall in progress
  fpc,         \* its position
  stdin,       \* the standard input of the process
  lock,        \* ~/.pack/locks/<package>.lock
  recipe0,     \* a recipe as its author wrote it
  recipe,      \* the bytes of the recipe file
  stripped,    \* what removeCSHA256Field made of the file
  digest,      \* what calculateRecipeVersion returned for the file
  lockArgs,    \* the arguments of createLockFile, by the field they fill
  lockLines,   \* the field lines of a lock file written by an older version or by hand
  lockText,    \* the bytes of the lock file
  lockData,    \* the map parseLockFile returned
  refs,        \* the commit of each ref of the source repository
  recipeNow,   \* the content hash of the recipe the repository serves
  lockRec,     \* the lock record of the package, as parseLockFile gives it
  update,      \* what checkPackageForUpdate returned
  locksDir,    \* ~/.pack/locks and what a check of each lock file comes to
  scan         \* scanForUpdates: its position and what it collected

srvVars == <<srvBox, srvPrev, srvPub, nextKey, edits>>
cacheVars == <<cacheBox, cacheStale>>
verifyVars == <<vsrc, vsig, vmeta, vlog, vres>>
bgVars == <<bgPc, bgDoc>>
chainVars == <<srvVars, cacheVars, pc, verifyVars, fret, bgVars>>
flowVars == <<flow, fpc, stdin, lock>>
hashVars == <<recipe0, recipe, stripped, digest>>
lockVars == <<lockArgs, lockLines, lockText, lockData>>
updVars == <<refs, recipeNow, lockRec, update>>
scanVars == <<locksDir, scan>>
auxVars == <<hashVars, lockVars, updVars, scanVars>>
vars == <<chainVars, flowVars, auxVars>>

\* ---------------------------------------------------------- rotate_keys
DigitChars == <<"0", "1", "2", "3", "4", "5", "6", "7", "8", "9">>

RECURSIVE Itoa(_)
\* fmt's %d of a non-negative number, as a sequence of characters.
Itoa(n) == IF n < 10 THEN <<DigitChars[n + 1]>>
           ELSE Itoa(n \div 10) \o <<DigitChars[(n % 10) + 1]>>

DigitValue(c) == CHOOSE d \in 0..9 : DigitChars[d + 1] = c
IsDigit(c) == \E d \in 0..9 : DigitChars[d + 1] = c

RECURSIVE AtoiValue(_)
AtoiValue(s) == IF Len(s) = 0 THEN 0
                ELSE 10 * AtoiValue(SubSeq(s, 1, Len(s) - 1)) + DigitValue(s[Len(s)])

\* strconv.Atoi on an unsigned text: an error unless every character is a digit.
Atoi(s) == IF Len(s) > 0 /\ \A i \in 1..Len(s) : IsDigit(s[i])
           THEN [ok |-> TRUE, val |-> AtoiValue(s)]
           ELSE [ok |-> FALSE, val |-> 0]

\* createKeyMetadata writes the version as "  version     %d".
VersionLine(v) ==
  <<" ", " ", "v", "e", "r", "s", "i", "o", "n", " ", " ", " ", " ", " ">> \o Itoa(v)
VersionPrefix == <<" ", " ", "v", "e", "r", "s", "i", "o", "n", " ">>

\* getCurrentVersion: the line that starts with "  version " (line[:10]) is
\* parsed from line[11:]; no other line of the document has that prefix.
getCurrentVersion(doc) ==
  IF doc.file # "doc" THEN 0
  ELSE LET line == VersionLine(doc.version)
           num == Atoi(SubSeq(line, 12, Len(line)))
       IN IF Len(line) > 10 /\ SubSeq(line, 1, 10) = VersionPrefix /\ num.ok
          THEN num.val ELSE 0

\* backupCurrentKey(keysDir, version): pack.box copied to pack_v<version>.box.
backupCurrentKey(prev, box, version) ==
  IF box.file = "doc" THEN [prev EXCEPT ![version] = box] ELSE prev

\* rotate_keys <repo> [version]; arg = 0 stands for no version argument.
\* The maintainer passes versions above the published one.  A rotation
\* commutes with the steps of the main goroutine that read no remote
\* document, so it is taken only before the steps that do.
Rotate(arg) ==
  /\ nextKey <= MaxKeys
  /\ arg = 0 \/ arg > srvBox.version
  /\ pc \notin {"v1", "v2", "vdone", "fr", "fdone"}
  /\ LET newVersion == IF arg = 0 THEN getCurrentVersion(srvBox) + 1 ELSE arg
     IN /\ srvPrev' = backupCurrentKey(srvPrev, srvBox, newVersion - 1)
        /\ srvBox' = Doc(newVersion, Key(nextKey))
        /\ srvPub' = Key(nextKey)
  /\ nextKey' = nextKey + 1
  /\ UNCHANGED <<edits, cacheVars, pc, verifyVars, fret, bgVars>>
  /\ UNCHANGED <<flowVars, auxVars>>

\* The maintainer writes the key of keys/pack.box by hand and gets it wrong.
HandEdit(k) ==
  /\ edits < MaxEdits
  /\ edits' = edits + 1
  /\ pc = "idle"
  /\ srvBox.file = "doc"
  /\ srvBox' = [srvBox EXCEPT !.key = k]
  /\ UNCHANGED <<srvPrev, srvPub, nextKey, cacheVars, pc, verifyVars, fret, bgVars>>
  /\ UNCHANGED <<flowVars, auxVars>>

\* -------------------------------------------------------- pure functions
\* ed25519.Verify(publicKey, message, sig): panics when the public key is
\* not 32 bytes, is false when the signature is not 64 bytes, and otherwise
\* is true exactly for a signature made over the message with that key pair.
Ed25519Verify(k, sig) ==
  IF k.size # PublicKeySize THEN "panic"
  ELSE IF sig.shape = "ok" /\ sig.over /\ sig.signer = k.id THEN "true"
  ELSE "false"

\* verifySignatureWithKey with the result of ed25519.Verify ignored.
verifySignatureWithKeyUnchecked(sig, k) ==
  IF ~k.b64 THEN "error"
  ELSE IF k.size # PublicKeySize THEN "error"
  ELSE "nil"

\* verifySignatureWithKey without the check of the decoded key's size.
verifySignatureWithKeyUnsized(sig, k) ==
  IF ~k.b64 THEN "error"
  ELSE LET r == Ed25519Verify(k, sig)
       IN IF r = "true" THEN "nil" ELSE IF r = "false" THEN "error" ELSE r

\* verifySignatureWithKey: "nil", "error", or "panic".
verifySignatureWithKey(sig, k) ==
  IF ~k.b64 THEN "error"
  ELSE IF k.size # PublicKeySize THEN "error"
  ELSE LET r == Ed25519Verify(k, sig)
       IN IF r = "true" THEN "nil" ELSE IF r = "false" THEN "error" ELSE r

\* The format check of fetchKeyMetadata and fetchLegacyPublicKey.
HasKeyFormat(k) == k.len = KeyTextLen /\ k.eq

\* The outcomes of an HTTP GET of a key document: the document the source
\* holds (status 200, parsed), or a failure (network error, other status).
FetchDoc(doc) == {NoDoc} \cup (IF doc.file = "doc" THEN {doc} ELSE {})
FetchKey(k) == {NoKey} \cup (IF k # NoKey THEN {k} ELSE {})

\* getCachedPublicKeyWithVersion: the versioned cache file when it parses;
\* the legacy <hash>.pub fallback never exists, no code path writes it.
getCachedPublicKeyWithVersion(box) == IF box.file = "doc" THEN box ELSE NoDoc

\* shouldRefreshKey: the .box cache file is missing or older than 24 hours.
shouldRefreshKey(box, stale) == box.file = "none" \/ stale

\* One entry of vlog.  op: "sig" (signature download), "read" (cache read),
\* "fetch" (HTTP GET of a key document), "clear" (clearKeyCache), "try"
\* (verifySignatureWithKey).  cand names the candidate of the chain, ver the
\* version requested or found, key the key text, ok the outcome.
Ev(op, cand, ver, key, ok) == [op |-> op, cand |-> cand, ver |-> ver, key |-> key, ok |-> ok]

\* The signatures a download can deliver: made over these recipe bytes by
\* any key pair generated so far or by a foreign one (0); made by the
\* latest key pair over other bytes; a truncated one; one that is not base64.
SigInputs ==
  {Sig(s, TRUE, "ok") : s \in 0..(nextKey - 1)}
    \cup {Sig(nextKey - 1, FALSE, "ok"), Sig(nextKey - 1, TRUE, "trunc"),
          Sig(nextKey - 1, TRUE, "notb64")}

\* ------------------------------------------------ verifyRecipeIntegrity
VerifiesEverySource(src) == FALSE

\* verifyRecipeIntegrity: "Skip verification for local sources".
SkipsVerification(src) == src = "local"

\* verifyRecipeIntegrity and verifyEd25519Signature up to the call of
\* verifyWithKeyChain.  got: the signature download succeeded.
verifyRecipeIntegrity(src, sig, got) ==
  /\ pc = "idle"
  /\ vsrc' = src
  /\ vmeta' = NoDoc
  /\ IF SkipsVerification(src)
     THEN /\ vres' = "nil"
          /\ vsig' = NoSig
          /\ vlog' = <<>>
          /\ pc' = "vdone"
     ELSE /\ vsig' = IF got THEN sig ELSE NoSig
          /\ vlog' = <<Ev("sig", "sig", 0, NoKey, got)>>
          /\ IF got /\ sig.shape # "notb64"
             THEN vres' = "running" /\ pc' = "v1"
             ELSE vres' = "error" /\ pc' = "vdone"
  /\ UNCHANGED <<srvVars, cacheVars, fret, bgVars>>
  /\ UNCHANGED <<flowVars, auxVars>>

\* How a try of key k ends the chain or moves on to position next.
AfterTry(r, next) ==
  IF r = "nil" THEN vres' = "nil" /\ pc' = "vdone"
  ELSE IF r = "panic" THEN vres' = "panic" /\ pc' = "vdone"
  ELSE vres' = "running" /\ pc' = next

\* Step 1: try the current cached key.
verifyStep1 ==
  /\ pc = "v1"
  /\ LET c == getCachedPublicKeyWithVersion(cacheBox)
         r == verifySignatureWithKey(vsig, c.key)
     IN IF c.file = "doc"
        THEN /\ vlog' = vlog \o <<Ev("read", "cached", c.version, c.key, TRUE),
                                  Ev("try", "cached", c.version, c.key, r = "nil")>>
             /\ AfterTry(r, "v2")
        ELSE /\ vlog' = Append(vlog, Ev("read", "cached", 0, NoKey, FALSE))
             /\ vres' = "running" /\ pc' = "v2"
  /\ UNCHANGED <<srvVars, cacheVars, vsrc, vsig, vmeta, fret, bgVars>>
  /\ UNCHANGED <<flowVars, auxVars>>

\* fetchKeyMetadata: d is the outcome of the GET; the document is returned
\* (and cached) only when its key has the expected format.
MetadataOk(d) == d.file = "doc" /\ HasKeyFormat(d.key)

\* Step 2: fetch the latest key metadata and try its key.
verifyStep2 ==
  /\ pc = "v2"
  /\ \E d \in FetchDoc(srvBox) :
       IF MetadataOk(d)
       THEN LET r == verifySignatureWithKey(vsig, d.key)
            IN /\ cacheBox' = d
               /\ cacheStale' = FALSE
               /\ vmeta' = d
               /\ vlog' = vlog \o <<Ev("fetch", "meta", d.version, d.key, TRUE),
                                    Ev("try", "meta", d.version, d.key, r = "nil")>>
               /\ AfterTry(r, "v3")
       ELSE /\ vlog' = Append(vlog, Ev("fetch", "meta", 0, NoKey, FALSE))
            /\ vres' = "running" /\ pc' = "v4"
            /\ UNCHANGED <<cacheVars, vmeta>>
  /\ UNCHANGED <<srvVars, vsrc, vsig, fret, bgVars>>
  /\ UNCHANGED <<flowVars, auxVars>>

\* Only the first of the previous keys is tried.
TryFirst(sig, docs) ==
  IF docs = <<>> THEN <<>>
  ELSE LET r == verifySignatureWithKey(sig, docs[1].key)
       IN <<[ev |-> Ev("try", "prev", docs[1].version, docs[1].key, r = "nil"), r |-> r]>>

RECURSIVE TryAll(_, _)
\* The tries of the keys of docs, in order, up to the first that ends the
\* chain ("nil" or "panic").
TryAll(sig, docs) ==
  IF docs = <<>> THEN <<>>
  ELSE LET r == verifySignatureWithKey(sig, docs[1].key)
           e == Ev("try", "prev", docs[1].version, docs[1].key, r = "nil")
       IN IF r = "error" THEN <<[ev |-> e, r |-> r]>> \o TryAll(sig, Tail(docs))
          ELSE <<[ev |-> e, r |-> r]>>

\* The loop of fetchPreviousKeyVersions running one version further.
PreviousVersionsFurther(currentVersion) ==
  [i \in 1..(IF currentVersion < Lookback + 1 THEN currentVersion ELSE Lookback + 1)
     |-> currentVersion - i]

\* The loop of fetchPreviousKeyVersions counting upwards.
PreviousVersionsAscending(currentVersion) ==
  [i \in 1..(IF currentVersion < Lookback THEN currentVersion ELSE Lookback)
     |-> IF currentVersion < Lookback THEN i - 1 ELSE currentVersion - Lookback + i - 1]

\* fetchPreviousKeyVersions: the versions requested, in order.
PreviousVersions(currentVersion) ==
  [i \in 1..(IF currentVersion < Lookback THEN currentVersion ELSE Lookback)
     |-> currentVersion - i]

RECURSIVE SelectGot(_, _)
\* The requested versions whose GET and parse succeeded, in request order.
SelectGot(req, got) ==
  IF req = <<>> THEN <<>>
  ELSE (IF req[1] \in got THEN <<req[1]>> ELSE <<>>) \o SelectGot(Tail(req), got)

\* Step 3: fetch the previous versions, then try each key found.
verifyStep3 ==
  /\ pc = "v3"
  /\ LET req == PreviousVersions(vmeta.version)
         have == {v \in {req[i] : i \in 1..Len(req)} : srvPrev[v].file = "doc"}
     IN \E got \in SUBSET have :
          LET keys == [i \in 1..Len(SelectGot(req, got)) |->
                         Doc(SelectGot(req, got)[i], srvPrev[SelectGot(req, got)[i]].key)]
              fetches == [i \in 1..Len(req) |->
                            Ev("fetch", "prev", req[i],
                               IF req[i] \in got THEN srvPrev[req[i]].key ELSE NoKey,
                               req[i] \in got)]
              tries == TryAll(vsig, keys)
              last == IF tries = <<>> THEN "error" ELSE tries[Len(tries)].r
          IN /\ vlog' = vlog \o fetches \o [i \in 1..Len(tries) |-> tries[i].ev]
             /\ AfterTry(last, "v4")
  /\ UNCHANGED <<srvVars, cacheVars, vsrc, vsig, vmeta, fret, bgVars>>
  /\ UNCHANGED <<flowVars, auxVars>>

\* fetchLegacyPublicKey: the key is returned, and cached as version 0, only
\* when it has the expected format.
LegacyOk(k) == k # NoKey /\ HasKeyFormat(k)

\* Step 4: the legacy pack.pub key.
verifyStep4 ==
  /\ pc = "v4"
  /\ \E k \in FetchKey(srvPub) :
       IF LegacyOk(k)
       THEN LET r == verifySignatureWithKey(vsig, k)
            IN /\ cacheBox' = Doc(0, k)
               /\ cacheStale' = FALSE
               /\ vlog' = vlog \o <<Ev("fetch", "legacy", 0, k, TRUE),
                                    Ev("try", "legacy", 0, k, r = "nil")>>
               /\ AfterTry(r, "v5")
       ELSE /\ vlog' = Append(vlog, Ev("fetch", "legacy", 0, NoKey, FALSE))
            /\ vres' = "running" /\ pc' = "v5"
            /\ UNCHANGED cacheVars
  /\ UNCHANGED <<srvVars, vsrc, vsig, vmeta, fret, bgVars>>
  /\ UNCHANGED <<flowVars, auxVars>>

\* Step 5 without clearKeyCache: a failed re-fetch leaves the cache as it was.
verifyStep5WithoutClear ==
  /\ pc = "v5"
  /\ \E d \in FetchDoc(srvBox) :
       IF MetadataOk(d)
       THEN LET r == verifySignatureWithKey(vsig, d.key)
            IN /\ cacheBox' = d
               /\ cacheStale' = FALSE
               /\ vlog' = vlog \o <<Ev("fetch", "refetch", d.version, d.key, TRUE),
                                    Ev("try", "refetch", d.version, d.key, r = "nil")>>
               /\ vres' = r
       ELSE /\ vlog' = Append(vlog, Ev("fetch", "refetch", 0, NoKey, FALSE))
            /\ vres' = "error"
            /\ UNCHANGED cacheVars
  /\ pc' = "vdone"
  /\ UNCHANGED <<srvVars, vsrc, vsig, vmeta, fret, bgVars>>
  /\ UNCHANGED <<flowVars, auxVars>>

\* Step 5: clearKeyCache, then one more fetchKeyMetadata.
verifyStep5 ==
  /\ pc = "v5"
  /\ \E d \in FetchDoc(srvBox) :
       IF MetadataOk(d)
       THEN LET r == verifySignatureWithKey(vsig, d.key)
            IN /\ cacheBox' = d
               /\ cacheStale' = FALSE
               /\ vlog' = vlog \o <<Ev("clear", "refetch", 0, NoKey, TRUE),
                                    Ev("fetch", "refetch", d.version, d.key, TRUE),
                                    Ev("try", "refetch", d.version, d.key, r = "nil")>>
               /\ vres' = r
       ELSE /\ cacheBox' = NoDoc
            /\ cacheStale' = FALSE
            /\ vlog' = vlog \o <<Ev("clear", "refetch", 0, NoKey, TRUE),
                                 Ev("fetch", "refetch", 0, NoKey, FALSE)>>
            /\ vres' = "error"
  /\ pc' = "vdone"
  /\ UNCHANGED <<srvVars, vsrc, vsig, vmeta, fret, bgVars>>
  /\ UNCHANGED <<flowVars, auxVars>>

\* The caller takes the result of the verification.
verifyReturn ==
  /\ pc = "vdone"
  /\ fpc = "idle"
  /\ pc' = "idle"
  /\ vsrc' = "none"
  /\ vsig' = NoSig
  /\ vmeta' = NoDoc
  /\ vlog' = <<>>
  /\ vres' = "none"
  /\ UNCHANGED <<srvVars, cacheVars, fret, bgVars>>
  /\ UNCHANGED <<flowVars, auxVars>>

\* ------------------------------------------------ fetchPublicKeyFromRepo
NoFetch == [pre |-> NoDoc, key |-> NoKey, spawned |-> FALSE, ret |-> NoKey, state |-> "none"]

\* fetchPublicKeyFromRepo for the remote source, up to the cache lookup: on
\* a hit the cached key is kept for the return and backgroundKeyRefresh is
\* started when the entry should be refreshed.  One refresh per process.
fetchPublicKeyFromRepo ==
  /\ pc = "idle"
  /\ bgPc = "idle"
  /\ LET c == getCachedPublicKeyWithVersion(cacheBox)
         refresh == c.file = "doc" /\ shouldRefreshKey(cacheBox, cacheStale)
     IN /\ fret' = [pre |-> cacheBox, key |-> c.key, spawned |-> refresh,
                    ret |-> NoKey, state |-> "running"]
        /\ bgPc' = IF refresh THEN "fetch" ELSE "idle"
        /\ pc' = IF c.file = "doc" THEN "fr" ELSE "f2"
  /\ UNCHANGED <<srvVars, cacheVars, verifyVars, bgDoc>>
  /\ UNCHANGED <<flowVars, auxVars>>

\* The cache read again at the return instead of the key read at the call.
ReturnedKeyReread(f, box) == getCachedPublicKeyWithVersion(box).key

\* The key fetchPublicKeyFromRepo returns on a cache hit.
ReturnedKey(f, box) == f.key

\* return cachedKey, nil
fetchReturn ==
  /\ pc = "fr"
  /\ fret' = [fret EXCEPT !.ret = ReturnedKey(fret, cacheBox), !.state = "ok"]
  /\ pc' = "fdone"
  /\ UNCHANGED <<srvVars, cacheVars, verifyVars, bgVars>>
  /\ UNCHANGED <<flowVars, auxVars>>

\* Cache miss: fetchKeyMetadata.
fetchStep2 ==
  /\ pc = "f2"
  /\ \E d \in FetchDoc(srvBox) :
       IF MetadataOk(d)
       THEN /\ cacheBox' = d
            /\ cacheStale' = FALSE
            /\ fret' = [fret EXCEPT !.ret = d.key, !.state = "ok"]
            /\ pc' = "fdone"
       ELSE /\ pc' = "f3"
            /\ UNCHANGED <<cacheVars, fret>>
  /\ UNCHANGED <<srvVars, verifyVars, bgVars>>
  /\ UNCHANGED <<flowVars, auxVars>>

\* Cache miss and no metadata: fetchLegacyPublicKey.
fetchStep3 ==
  /\ pc = "f3"
  /\ \E k \in FetchKey(srvPub) :
       IF LegacyOk(k)
       THEN /\ cacheBox' = Doc(0, k)
            /\ cacheStale' = FALSE
            /\ fret' = [fret EXCEPT !.ret = k, !.state = "ok"]
       ELSE /\ fret' = [fret EXCEPT !.state = "error"]
            /\ UNCHANGED cacheVars
  /\ pc' = "fdone"
  /\ UNCHANGED <<srvVars, verifyVars, bgVars>>
  /\ UNCHANGED <<flowVars, auxVars>>

\* The caller takes the key fetchPublicKeyFromRepo returned.
fetchDone ==
  /\ pc = "fdone"
  /\ pc' = "idle"
  /\ fret' = NoFetch
  /\ UNCHANGED <<srvVars, cacheVars, verifyVars, bgVars>>
  /\ UNCHANGED <<flowVars, auxVars>>

\* -------------------------------------------------- backgroundKeyRefresh
\* fetchKeyMetadata in the goroutine, up to its cache write.
bgFetchMetadata ==
  /\ bgPc = "fetch"
  /\ \E d \in FetchDoc(srvBox) :
       IF MetadataOk(d)
       THEN bgDoc' = d /\ bgPc' = "trunc1"
       ELSE bgDoc' = NoDoc /\ bgPc' = "legacy"
  /\ UNCHANGED <<srvVars, cacheVars, pc, verifyVars, fret>>
  /\ UNCHANGED <<flowVars, auxVars>>

\* fetchLegacyPublicKey in the goroutine, up to its cache write.
bgFetchLegacy ==
  /\ bgPc = "legacy"
  /\ \E k \in FetchKey(srvPub) :
       IF LegacyOk(k)
       THEN bgDoc' = Doc(0, k) /\ bgPc' = "trunc1"
       ELSE bgDoc' = NoDoc /\ bgPc' = "idle"
  /\ UNCHANGED <<srvVars, cacheVars, pc, verifyVars, fret>>
  /\ UNCHANGED <<flowVars, auxVars>>

\* os.WriteFile opens the cache file with O_TRUNC ...
bgTruncate ==
  /\ bgPc \in {"trunc1", "trunc2"}
  /\ cacheBox' = TornDoc
  /\ cacheStale' = FALSE
  /\ bgPc' = IF bgPc = "trunc1" THEN "write1" ELSE "write2"
  /\ UNCHANGED <<srvVars, pc, verifyVars, fret, bgDoc>>
  /\ UNCHANGED <<flowVars, auxVars>>

\* ... and then writes the record.  The fetch function caches the record
\* and backgroundKeyRefresh caches it once more.
bgWrite ==
  /\ bgPc \in {"write1", "write2"}
  /\ cacheBox' = bgDoc
  /\ cacheStale' = FALSE
  /\ bgPc' = IF bgPc = "write1" THEN "trunc2" ELSE "idle"
  /\ bgDoc' = IF bgPc = "write1" THEN bgDoc ELSE NoDoc
  /\ UNCHANGED <<srvVars, pc, verifyVars, fret>>
  /\ UNCHANGED <<flowVars, auxVars>>

\* main returns: the process ends and takes the goroutine with it.
exitProcess ==
  /\ pc = "idle"
  /\ bgPc # "idle"
  /\ bgPc' = "idle"
  /\ bgDoc' = NoDoc
  /\ UNCHANGED <<srvVars, cacheVars, pc, verifyVars, fret>>
  /\ UNCHANGED <<flowVars, auxVars>>

\* 24 hours pass between two runs of the program.
Tick ==
  /\ pc = "idle"
  /\ bgPc = "idle"
  /\ cacheBox.file # "none"
  /\ ~cacheStale
  /\ cacheStale' = TRUE
  /\ UNCHANGED <<srvVars, cacheBox, pc, verifyVars, fret, bgVars>>
  /\ UNCHANGED <<flowVars, auxVars>>

\* ------------------------------------------- install, update, uninstall
Range(seq) == {seq[i] : i \in 1..Len(seq)}

\* The remote repositories a configuration can name, the configurations,
\* and what the HEAD request of testPackageExists can come to.
Remotes == {"r1", "r2"}
Configs == {<<>>, <<"r1">>, <<"r1", "r2">>, <<"r2", "r1">>}
Probes == {"200", "404", "error"}

\* What findAvailableSources saw and returned; the line read by
\* promptSourceSelection.
NoFound == [local |-> FALSE, config |-> <<>>, probe |-> [r \in Remotes |-> "error"],
            sources |-> <<>>, line |-> "none", prompted |-> FALSE]
NoFlow == [kind |-> "none", src |-> "none", name |-> "none", found |-> NoFound,
           url |-> <<>>, sigURL |-> <<>>, fetched |-> FALSE, verified |-> "none", override |-> "none",
           edited |-> FALSE, ran |-> FALSE, wrote |-> FALSE, res |-> "none"]
NoLock == [file |-> "none", repo |-> "none", recipe_url |-> <<>>, trust |-> "none"]

\* Standard input: a terminal, where the operator types a line at each
\* read, or the pipe installPackageAutomatically puts in its place.
Terminal == [tty |-> TRUE, buf |-> <<>>]
Pipe(lines) == [tty |-> FALSE, buf |-> lines]

\* What an operator types at a prompt.  strings.ToLower and
\* strings.TrimSpace leave each of these lines as it is.
Lines == {"y", "yes", "", "n", "e", "0", "1", "2", "3", "4", "x"}

\* The characters of a line.
Text(line) ==
  IF line = "" THEN <<>>
  ELSE IF line = "yes" THEN <<"y", "e", "s">>
  ELSE <<line>>

\* fmt.Scanln(&input): reads byte by byte up to the newline; on end of
\* input the variable keeps its zero value "".
Scanln(in) ==
  IF in.tty THEN {[line |-> a, rest |-> in] : a \in Lines}
  ELSE IF in.buf = <<>> THEN {[line |-> "", rest |-> in]}
  ELSE {[line |-> Head(in.buf), rest |-> [in EXCEPT !.buf = Tail(in.buf)]]}

\* bufio.NewReader(os.Stdin).ReadString('\n'): the new reader fills its
\* buffer with all a pipe holds and is dropped with what it did not return;
\* "EOF" stands for a read error.
ReadString(in) ==
  IF in.tty THEN {[line |-> a, rest |-> in] : a \in Lines \cup {"EOF"}}
  ELSE IF in.buf = <<>> THEN {[line |-> "EOF", rest |-> in]}
  ELSE {[line |-> Head(in.buf), rest |-> [in EXCEPT !.buf = <<>>]]}

\* The flow returns the error err.
FailWith(f, err) == flow' = [f EXCEPT !.res = err] /\ fpc' = "done"

\* The flow returns err.
Fail(f) == FailWith(f, "error")

\* openPackage -> executePackageScript, the operator at the terminal.
openPackage ==
  /\ fpc = "idle" /\ pc = "idle"
  /\ flow' = [NoFlow EXCEPT !.kind = "install"]
  /\ fpc' = "download"
  /\ stdin' = Terminal
  /\ UNCHANGED <<auxVars, chainVars, lock>>

\* installPackageAutomatically: os.Stdin is replaced by a pipe that holds
\* "2\ny\n" and openPackage is called.
installPackageAutomatically ==
  /\ fpc = "idle" /\ pc = "idle"
  /\ flow' = [NoFlow EXCEPT !.kind = "auto"]
  /\ fpc' = "download"
  /\ stdin' = Pipe(<<"2", "y">>)
  /\ UNCHANGED <<auxVars, chainVars, lock>>

\* Every repository that answered, whatever the status.
RECURSIVE RemoteSourcesAnyStatus(_, _)
RemoteSourcesAnyStatus(config, probe) ==
  IF config = <<>> THEN <<>>
  ELSE (IF probe[config[1]] # "error" THEN <<config[1]>> ELSE <<>>)
       \o RemoteSourcesAnyStatus(Tail(config), probe)

\* The repositories of the configuration that host the package, in the
\* order of the configuration: testPackageExists is true for status 200.
RECURSIVE RemoteSources(_, _)
RemoteSources(config, probe) ==
  IF config = <<>> THEN <<>>
  ELSE (IF probe[config[1]] = "200" THEN <<config[1]>> ELSE <<>>)
       \o RemoteSources(Tail(config), probe)

\* The remotes listed only when the local repository lacks the recipe.
findLocalSourceAlone(hasLocal, config, probe) ==
  IF hasLocal THEN <<"local">> ELSE RemoteSources(config, probe)

\* findAvailableSources: the local repository first when it holds the
\* recipe, then the configured remotes that host it.
findAvailableSources(hasLocal, config, probe) ==
  (IF hasLocal THEN <<"local">> ELSE <<>>) \o RemoteSources(config, probe)

\* The repositories as the configuration writes them, in pieces: r1 is a
\* repository page, r2 a raw.githubusercontent.com address.
RepoURL(name) ==
  IF name = "r2" THEN <<"https://", "raw.githubusercontent.com", "/u/r2/main">>
  ELSE <<"https://", "github.com", "/u/", name>>
PackageName == "vim"

\* strings.Contains(source, "raw.githubusercontent.com")
IsRawLayout(source) == "raw.githubusercontent.com" \in Range(source)

\* findAvailableSources: the URL probed and fetched for a source.
packageURL(source, packageName) ==
  IF IsRawLayout(source) THEN source \o <<"/", packageName, ".box">>
  ELSE source \o <<"/raw/main/", packageName, ".box">>

\* updatePackageFromOriginalSource, executeUninstallScript: scriptURL
originalURL(originalRepo, packageName) ==
  originalRepo \o <<"/raw/main/", packageName, ".box">>

\* getScriptURL
getScriptURL(sourceRepo, fileName) == sourceRepo \o <<"/raw/main/">> \o fileName

\* strings.Replace(s, ".box", ".box.sig", 1)
ReplaceFirstBox(s) ==
  IF \A i \in 1..Len(s) : s[i] # ".box" THEN s
  ELSE LET i == CHOOSE j \in 1..Len(s) : s[j] = ".box" /\ \A k \in 1..(j - 1) : s[k] # ".box"
       IN SubSeq(s, 1, i) \o <<".sig">> \o SubSeq(s, i + 1, Len(s))

\* verifyEd25519Signature: sigURL
sigURL(sourceRepo, packageName) ==
  ReplaceFirstBox(getScriptURL(sourceRepo, <<packageName, ".box">>))

\* constructRecipeURL
constructRecipeURL(name, type, packageName) ==
  IF type = "local" THEN <<"local">>
  ELSE RepoURL(name) \o <<"/raw/main/", packageName, ".box">>

\* The place a recipe is fetched from at an install: the file of the local
\* directory or the URL of the source.
SourceURL(name) ==
  IF name = "local" THEN <<"~/.pack/local/", PackageName, ".box">>
  ELSE packageURL(RepoURL(name), PackageName)

\* The place a recipe is fetched from again for the repository of a lock
\* file.
OriginalSourceURL(name) ==
  IF name = "local" THEN <<"~/.pack/local/", PackageName, ".box">>
  ELSE originalURL(RepoURL(name), PackageName)

\* PackageSource.Type of a source of that name.
SourceType(name) == IF name = "local" THEN "local" ELSE "remote"

\* downloadFromSources up to the selection: no source is an error.
downloadFromSources(hasLocal, config, probe) ==
  /\ fpc = "download"
  /\ LET sources == findAvailableSources(hasLocal, config, probe)
         f == [flow EXCEPT !.found = [NoFound EXCEPT !.local = hasLocal, !.config = config,
                                                     !.probe = probe, !.sources = sources]]
     IN IF Len(sources) = 0 THEN FailWith(f, "not found")
        ELSE flow' = f /\ fpc' = "select"
  /\ UNCHANGED <<auxVars, chainVars, stdin, lock>>

\* The selection with "1" for the empty line read.
SelectionNoDefault(line, n) ==
  LET choice == Atoi(Text(line))
  IN IF ~choice.ok \/ choice.val < 1 \/ choice.val > n THEN 0 ELSE choice.val

\* promptSourceSelection: strconv.Atoi of the line, "" standing for "1";
\* 0 is an invalid selection.
Selection(line, n) ==
  LET choice == Atoi(Text(IF line = "" THEN "1" ELSE line))
  IN IF ~choice.ok \/ choice.val < 1 \/ choice.val > n THEN 0 ELSE choice.val

\* The operator is asked whatever the number of sources.
PromptsAlways(sources) == TRUE

\* downloadFromSources: one source is taken as it is, several are offered.
Prompts(sources) == Len(sources) # 1

\* downloadFromSources, the selection: promptSourceSelection when there are
\* several sources.
promptSourceSelection ==
  /\ fpc = "select"
  /\ LET sources == flow.found.sources
     IN IF ~Prompts(sources)
        THEN /\ UNCHANGED stdin
             /\ flow' = [flow EXCEPT !.name = sources[1], !.src = SourceType(sources[1])]
             /\ fpc' = "fetch"
        ELSE \E r \in Scanln(stdin) :
               /\ stdin' = r.rest
               /\ LET choice == Selection(r.line, Len(sources))
                      f == [flow EXCEPT !.found.line = r.line, !.found.prompted = TRUE]
                  IN IF choice = 0 THEN FailWith(f, "invalid selection")
                     ELSE /\ flow' = [f EXCEPT !.name = sources[choice],
                                               !.src = SourceType(sources[choice])]
                          /\ fpc' = "fetch"
  /\ UNCHANGED <<auxVars, chainVars, lock>>

\* downloadFromSources, the end: copyFile or downloadFile of the selected
\* source.
downloadSelected(ok) ==
  /\ fpc = "fetch"
  /\ IF ok THEN /\ flow' = [flow EXCEPT !.fetched = TRUE, !.found = NoFound,
                                         !.url = SourceURL(flow.name)]
                /\ fpc' = "verify"
     ELSE Fail(flow)
  /\ UNCHANGED <<auxVars, chainVars, stdin, lock>>

\* An update that looks the package up in the sources again.
updatePackageFromAnySource(ok) ==
  /\ fpc = "idle" /\ pc = "idle"
  /\ stdin' = Terminal
  /\ LET f == [NoFlow EXCEPT !.kind = "update"]
     IN IF lock.file # "lock" \/ ~ok THEN Fail(f)
        ELSE flow' = f /\ fpc' = "download"
  /\ UNCHANGED <<auxVars, chainVars, lock>>

\* updatePackageFromOriginalSource up to the verification: the lock file
\* names the repository the recipe is fetched from again.
updatePackageFromOriginalSource(ok) ==
  /\ fpc = "idle" /\ pc = "idle"
  /\ stdin' = Terminal
  /\ LET f == [NoFlow EXCEPT !.kind = "update"]
     IN IF lock.file # "lock" \/ ~ok THEN Fail(f)
        ELSE /\ flow' = [f EXCEPT !.name = lock.repo, !.src = SourceType(lock.repo),
                                  !.url = OriginalSourceURL(lock.repo), !.fetched = TRUE]
             /\ fpc' = "verify"
  /\ UNCHANGED <<auxVars, chainVars, lock>>

\* verifyRecipeIntegrity has returned to executePackageScript or
\* updatePackageFromOriginalSource.
verifyReturned ==
  /\ fpc = "verify" /\ pc = "vdone"
  /\ flow' = [flow EXCEPT !.verified = vres,
                          !.sigURL = IF flow.src = "local" THEN <<>>
                                     ELSE sigURL(RepoURL(flow.name), PackageName)]
  /\ fpc' = IF vres = "nil" THEN "confirm" ELSE "override"
  /\ pc' = "idle"
  /\ vsrc' = "none" /\ vsig' = NoSig /\ vmeta' = NoDoc /\ vlog' = <<>> /\ vres' = "none"
  /\ UNCHANGED <<auxVars, srvVars, cacheVars, fret, bgVars, stdin, lock>>

\* An override prompt whose default is yes.
OverrideAcceptedByDefault(response) == response \in {"y", "yes", ""}

\* The answer with which the flow goes on after a failed verification.
OverrideAccepted(response) == response \in {"y", "yes"}

\* "continue anyway? [y/N]"
overridePrompt ==
  /\ fpc = "override"
  /\ \E r \in ReadString(stdin) :
       /\ stdin' = r.rest
       /\ IF r.line = "EOF" THEN Fail(flow)
          ELSE IF OverrideAccepted(r.line)
          THEN flow' = [flow EXCEPT !.override = r.line] /\ fpc' = "confirm"
          ELSE Fail([flow EXCEPT !.override = r.line])
  /\ UNCHANGED <<auxVars, chainVars, lock>>

\* showRecipeAndConfirm: "proceed? [y/e/n]", each round with a new reader;
\* "e" runs the editor on the recipe and asks again.
showRecipeAndConfirm(editorOk) ==
  /\ fpc = "confirm"
  /\ \E r \in ReadString(stdin) :
       /\ stdin' = r.rest
       /\ IF r.line = "EOF" THEN Fail(flow)
          ELSE IF r.line \in {"y", "yes", ""} THEN fpc' = "exec" /\ UNCHANGED flow
          ELSE IF r.line \in {"n", "no"} THEN Fail(flow)
          ELSE IF r.line \in {"e", "edit"}
          THEN flow' = [flow EXCEPT !.edited = flow.edited \/ editorOk] /\ UNCHANGED fpc
          ELSE UNCHANGED <<flow, fpc>>
  /\ UNCHANGED <<auxVars, chainVars, lock>>

\* findBoxExecutable and execCmd.Run() of the recipe.
runScript(out) ==
  /\ fpc = "exec"
  /\ IF out = "nobox" THEN Fail(flow)
     ELSE IF out = "failed" THEN Fail([flow EXCEPT !.ran = TRUE])
     ELSE flow' = [flow EXCEPT !.ran = TRUE] /\ fpc' = "lock"
  /\ UNCHANGED <<auxVars, chainVars, stdin, lock>>

\* createLockFile: "Determine trust state - always ed25519 now".
TrustState(f) == "ed25519"

\* createLockFile; a failure is a warning only.
createLockFile(ok) ==
  /\ fpc = "lock"
  /\ IF ok THEN /\ lock' = [file |-> "lock", repo |-> flow.name,
                         recipe_url |-> constructRecipeURL(flow.name, flow.src, PackageName),
                         trust |-> TrustState(flow)]
                /\ flow' = [flow EXCEPT !.wrote = TRUE, !.res = "nil"]
           ELSE /\ UNCHANGED lock
                /\ flow' = [flow EXCEPT !.res = "nil"]
  /\ fpc' = "done"
  /\ UNCHANGED <<auxVars, chainVars, stdin>>

\* executeUninstallScript up to the run of the recipe: the recipe is
\* fetched again from the repository the lock file names.
executeUninstallScript(ok) ==
  /\ fpc = "idle" /\ pc = "idle"
  /\ stdin' = Terminal
  /\ LET f == [NoFlow EXCEPT !.kind = "uninstall"]
     IN IF lock.file # "lock" \/ ~ok THEN Fail(f)
        ELSE /\ flow' = [f EXCEPT !.name = lock.repo, !.src = SourceType(lock.repo),
                                  !.url = OriginalSourceURL(lock.repo), !.fetched = TRUE]
             /\ fpc' = "unexec"
  /\ UNCHANGED <<auxVars, chainVars, lock>>

\* exec.Command(boxPath, scriptPath, "uninstall").Run()
runUninstall(out) ==
  /\ fpc = "unexec"
  /\ IF out = "nobox" THEN Fail(flow)
     ELSE IF out = "failed" THEN Fail([flow EXCEPT !.ran = TRUE])
     ELSE flow' = [flow EXCEPT !.ran = TRUE] /\ fpc' = "unlock"
  /\ UNCHANGED <<auxVars, chainVars, stdin, lock>>

\* The lock file left in place by a removal that reports success.
keepLock(ok) ==
  /\ fpc = "unlock"
  /\ lock' = lock
  /\ flow' = [flow EXCEPT !.wrote = ok, !.res = "nil"]
  /\ fpc' = "done"
  /\ UNCHANGED <<auxVars, chainVars, stdin>>

\* os.Remove(lockFilePath); a failure is a warning only.
removeLock(ok) ==
  /\ fpc = "unlock"
  /\ lock' = IF ok THEN NoLock ELSE lock
  /\ flow' = [flow EXCEPT !.wrote = ok, !.res = "nil"]
  /\ fpc' = "done"
  /\ UNCHANGED <<auxVars, chainVars, stdin>>

\* The command is over.
flowReturn ==
  /\ fpc = "done"
  /\ flow' = NoFlow
  /\ fpc' = "idle"
  /\ stdin' = Terminal
  /\ UNCHANGED <<auxVars, chainVars, lock>>

\* ------------------------------------------------------ the content hash
\* The bytes of a recipe.  "H" stands for the six bytes of the word sha256;
\* every other symbol is the byte of its name.
Alphabet == {"H", " ", "\t", "\n", "a"}
NoBytes == [ok |-> FALSE, bytes |-> <<>>]

\* Byte strings of length n, and of length up to n.
RECURSIVE BytesOfLen(_)
BytesOfLen(n) ==
  IF n = 0 THEN {<<>>}
  ELSE {Append(b, c) : b \in BytesOfLen(n - 1), c \in Alphabet}
Recipes == UNION {BytesOfLen(n) : n \in 0..MaxRecipeLen}

\* strings.Split(s, "\n")
RECURSIVE SplitLines(_)
SplitLines(s) ==
  IF \A i \in 1..Len(s) : s[i] # "\n" THEN <<s>>
  ELSE LET i == CHOOSE j \in 1..Len(s) : s[j] = "\n" /\ \A k \in 1..(j - 1) : s[k] # "\n"
       IN <<SubSeq(s, 1, i - 1)>> \o SplitLines(SubSeq(s, i + 1, Len(s)))

\* strings.Join(lines, "\n")
RECURSIVE JoinLines(_)
JoinLines(lines) ==
  IF Len(lines) = 0 THEN <<>>
  ELSE IF Len(lines) = 1 THEN lines[1]
  ELSE lines[1] \o <<"\n">> \o JoinLines(Tail(lines))

IsSpace(c) == c \in {" ", "\t", "\n", "\r"}

\* strings.TrimSpace
RECURSIVE TrimLeft(_)
TrimLeft(s) == IF s # <<>> /\ IsSpace(s[1]) THEN TrimLeft(Tail(s)) ELSE s
RECURSIVE TrimRight(_)
TrimRight(s) ==
  IF s # <<>> /\ IsSpace(s[Len(s)]) THEN TrimRight(SubSeq(s, 1, Len(s) - 1)) ELSE s
TrimSpace(s) == TrimRight(TrimLeft(s))

\* strings.HasPrefix
HasPrefix(s, prefix) == Len(s) >= Len(prefix) /\ SubSeq(s, 1, Len(prefix)) = prefix

\* The test on the untrimmed line.
IsHashFieldUntrimmed(line) == line # <<>> /\ HasPrefix(line, <<"H", " ">>)

\* removeCSHA256Field: the line is skipped when, trimmed, it is not empty
\* and starts with "sha256 ".
IsHashField(line) ==
  LET trimmed == TrimSpace(line)
  IN trimmed # <<>> /\ HasPrefix(trimmed, <<"H", " ">>)

\* removeCSHA256Field
removeCSHA256Field(content) ==
  JoinLines(SelectSeq(SplitLines(content), LAMBDA line : ~IsHashField(line)))

\* calculateSHA256: SHA-256 taken as free of collisions, a digest is named
\* by the bytes it was taken of.
calculateSHA256(content) == [ok |-> TRUE, bytes |-> content]

\* The hash of the file as it is.
hashOfFile(content) == calculateSHA256(content)

\* calculateRecipeVersion after the file is read.
computeContentHash(content) == calculateSHA256(removeCSHA256Field(content))

\* The recipes the repository serves here: up to MaxRecipeLines lines, plain
\* ones and hash fields.
ServedLines == {<<"a">>, <<"a", "a">>, <<"H", " ", "a">>, <<" ", "H", " ", "H">>}
RECURSIVE ServedOfLines(_)
ServedOfLines(n) ==
  IF n = 0 THEN {<<>>}
  ELSE {l : l \in ServedLines} \cup
       {r \o <<"\n">> \o l : r \in ServedOfLines(n - 1) \ {<<>>}, l \in ServedLines}
       \cup ServedOfLines(n - 1)
Served == ServedOfLines(MaxRecipeLines)

\* A hash-field line as a recipe carries it: indentation, the key, one
\* space, the value.
HashLine(indent, value) == indent \o <<"H", " ">> \o value
Indents == {<<>>, <<" ">>, <<"\t", " ">>}
HashValues == {<<"a">>, <<"a", " ", "a">>, <<"H">>, <<"a", "\t">>}

\* The lines of s with line put in front of line number at (after the last
\* line when at is one more than their number).
InsertLine(s, at, line) ==
  LET lines == SplitLines(s)
  IN JoinLines(SubSeq(lines, 1, at - 1) \o <<line>> \o SubSeq(lines, at, Len(lines)))

\* A tool or an author adds the hash field to the recipe.
insertHashField(at, indent, value) ==
  /\ recipe = recipe0
  /\ digest = NoBytes
  /\ at \in 1..(Len(SplitLines(recipe)) + 1)
  /\ recipe' = InsertLine(recipe, at, HashLine(indent, value))
  /\ UNCHANGED <<recipe0, stripped, digest, chainVars, flowVars, lockVars, updVars, scanVars>>

\* calculateRecipeVersion of the recipe file.
calculateRecipeVersion ==
  /\ digest = NoBytes
  /\ stripped' = [ok |-> TRUE, bytes |-> removeCSHA256Field(recipe)]
  /\ digest' = computeContentHash(recipe)
  /\ UNCHANGED <<recipe0, recipe, chainVars, flowVars, lockVars, updVars, scanVars>>

\* ----------------------------------------------------------- the lock file
\* The bytes of a lock file.  A key, "[data", "-c", "lock]" and "end" each
\* stand for the bytes of the word; every other symbol is the byte of its
\* name.
LockFields == <<"package", "repo", "src_url", "src_type", "src_ref", "src_ref_used",
                "recipe_sha256", "recipe_url", "installed_at", "shelf_path",
                "symlink_path", "config_dir", "trust_state">>

\* The legacy keys and the canonical key each one stands for.
LegacyKeys == {"source", "source_type", "source_version", "sha256"}
Canonical(key) ==
  CASE key = "source" -> "src_url"
    [] key = "source_type" -> "src_type"
    [] key = "source_version" -> "src_ref_used"
    [] key = "sha256" -> "recipe_sha256"
    [] OTHER -> "none"

\* The values a field can hold: what the callers of createLockFile pass is
\* trimmed and on one line.
RECURSIVE ValuesOfLen(_)
ValuesOfLen(n) ==
  IF n = 0 THEN {<<>>}
  ELSE {Append(v, c) : v \in ValuesOfLen(n - 1), c \in {"a", " "}}
Values == {v \in UNION {ValuesOfLen(n) : n \in 0..MaxValueLen} : TrimSpace(v) = v}

\* The arguments that vary; the others are fixed.
VaryingFields == {"repo", "src_url", "src_ref_used", "recipe_sha256"}
FixedArgs == [f \in Range(LockFields) |-> <<"a">>]
NoText == [ok |-> FALSE, by |-> "none", bytes |-> <<>>]
EmptyMap == [k \in {} |-> <<>>]
NoData == [ok |-> FALSE, map |-> EmptyMap]

\* One line of the data block: "  key value\n".
FieldLine(key, value) == <<" ", " ", key, " ">> \o value \o <<"\n">>

RECURSIVE FieldLines(_, _)
FieldLines(fields, args) ==
  IF fields = <<>> THEN <<>>
  ELSE FieldLine(Head(fields), args[Head(fields)]) \o FieldLines(Tail(fields), args)

\* createLockFile: the lockContent of fmt.Sprintf.
lockContent(args) ==
  <<"[data", " ", "-c", " ", "lock]", "\n">> \o FieldLines(LockFields, args) \o <<"end", "\n">>

\* The lock file of an older version: the lines given, in their order.
RECURSIVE RecordLines(_)
RecordLines(lines) ==
  IF lines = <<>> THEN <<>>
  ELSE FieldLine(Head(lines).key, Head(lines).value) \o RecordLines(Tail(lines))
legacyContent(lines) ==
  <<"[data", " ", "-c", " ", "lock]", "\n">> \o RecordLines(lines) \o <<"end", "\n">>

\* strings.SplitN(s, " ", 2)
SplitN2(s) ==
  IF \A i \in 1..Len(s) : s[i] # " " THEN <<s>>
  ELSE LET i == CHOOSE j \in 1..Len(s) : s[j] = " " /\ \A k \in 1..(j - 1) : s[k] # " "
       IN <<SubSeq(s, 1, i - 1), SubSeq(s, i + 1, Len(s))>>

\* strings.Contains(trimmed, "lock")
ContainsLock(s) == \E i \in 1..Len(s) : s[i] \in {"lock", "lock]"}

\* lockData[key] = value
Put(data, key, value) ==
  [k \in DOMAIN data \cup {key} |-> IF k = key THEN value ELSE data[k]]

\* lockData[key] of Go: the zero value for a key that is not there.
Get(data, key) == IF key \in DOMAIN data THEN data[key] ELSE <<>>

\* The value of the legacy key put over the one that is there.
PutAlways(data, key, value) == Put(data, key, value)

\* if _, exists := lockData[key]; !exists { lockData[key] = value }
PutIfAbsent(data, key, value) ==
  IF key \in DOMAIN data THEN data ELSE Put(data, key, value)

\* parseLockFile: the legacy field name mapping of a line read.
mapLegacyKey(data, key, value) ==
  IF key \in LegacyKeys THEN PutIfAbsent(data, Canonical(key), value) ELSE data

\* parseLockFile: the loop over the lines.
RECURSIVE parseLockLines(_, _, _)
parseLockLines(lines, inDataBlock, data) ==
  IF lines = <<>> THEN data
  ELSE LET trimmed == TrimSpace(Head(lines))
           rest == Tail(lines)
       IN IF HasPrefix(trimmed, <<"[data">>) /\ ContainsLock(trimmed)
          THEN parseLockLines(rest, TRUE, data)
          ELSE IF inDataBlock /\ trimmed = <<"end">> THEN data
          ELSE IF inDataBlock /\ trimmed # <<>> /\ ~HasPrefix(trimmed, <<"#">>)
          THEN LET parts == SplitN2(trimmed)
               IN IF Len(parts) >= 2 /\ Len(parts[1]) = 1
                  THEN LET key == parts[1][1]
                           value == TrimSpace(parts[2])
                       IN parseLockLines(rest, inDataBlock,
                                         mapLegacyKey(Put(data, key, value), key, value))
                  ELSE parseLockLines(rest, inDataBlock, data)
          ELSE parseLockLines(rest, inDataBlock, data)

parseLockData(content) == parseLockLines(SplitLines(content), FALSE, EmptyMap)

\* The lines an older lock file can hold for a field with a legacy key.
LegacyValues == {<<>>, <<"a">>, <<"a", " ", "a">>}
LegacyLine == [key : LegacyKeys \cup {Canonical(k) : k \in LegacyKeys}, value : LegacyValues]
RECURSIVE LinesOfLen(_)
LinesOfLen(n) ==
  IF n = 0 THEN {<<>>}
  ELSE {Append(l, x) : l \in LinesOfLen(n - 1), x \in LegacyLine}

\* createLockFile writes the file.
writeLockFile ==
  /\ ~lockText.ok
  /\ lockText' = [ok |-> TRUE, by |-> "createLockFile", bytes |-> lockContent(lockArgs)]
  /\ UNCHANGED <<lockArgs, lockLines, lockData, hashVars, updVars, scanVars, chainVars, flowVars>>

\* The file is one an older version wrote.
keepLegacyFile(lines) ==
  /\ ~lockText.ok
  /\ lockArgs = FixedArgs
  /\ lockLines' = lines
  /\ lockText' = [ok |-> TRUE, by |-> "legacy", bytes |-> legacyContent(lines)]
  /\ UNCHANGED <<lockArgs, lockData, hashVars, updVars, scanVars, chainVars, flowVars>>

\* parseLockFile reads the file.
parseLockFile ==
  /\ lockText.ok
  /\ ~lockData.ok
  /\ lockData' = [ok |-> TRUE, map |-> parseLockData(lockText.bytes)]
  /\ UNCHANGED <<lockArgs, lockLines, lockText, hashVars, updVars, scanVars, chainVars, flowVars>>

\* ------------------------------------------------------ the update check
\* The commits of the source repository, by their hexadecimal id (shortened
\* here to ten digits), and its refs; <<>> for a ref that is not there.
Commits == {<<"3", "b", "3", "b", "9", "3", "6", "1", "0", "0">>,
            <<"a", "1", "c", "2", "d", "3", "e", "4", "0", "0">>,
            <<"a", "1", "c", "2", "d", "3", "e", "4", "f", "5">>}
Refs == {"HEAD", "v1"}
Hashes == {<<"h1">>, <<"h2">>}
SourceTypes == {"git", "download", "archive", "file", "svn"}
RecipeURLs == {<<"local">>, <<"url">>}

NoRec == [src_url |-> <<>>, src_type |-> <<>>, src_ref |-> <<>>, src_ref_used |-> <<>>,
          recipe_url |-> <<>>, recipe_sha256 |-> <<>>]
NoUpdate == [done |-> FALSE, has |-> FALSE, CurrentVersion |-> <<>>, NewVersion |-> <<>>,
             UpdateType |-> <<>>, err |-> "none", fetch |-> "none", query |-> "none",
             by |-> "none", net |-> <<>>, upToDate |-> FALSE]
NoVersion == [ok |-> FALSE, val |-> <<>>]

\* parts[0][:8]
Abbrev(commit) == SubSeq(commit, 1, AbbrevLen)

\* getGitRefCommit: git ls-remote <url> <ref>; no line for a ref that is
\* not there.
getGitRefCommit(ref, ok) ==
  IF ok /\ refs[ref] # <<>> THEN [ok |-> TRUE, val |-> Abbrev(refs[ref])] ELSE NoVersion

\* getGitHeadCommit: git ls-remote <url> HEAD
getGitHeadCommit(ok) == getGitRefCommit("HEAD", ok)

\* detectSourceTypeAndVersion: the version recorded for the source.
detectSourceVersion(type, ref, ok) ==
  IF type = "git"
  THEN LET r == getGitRefCommit(ref, ok) IN IF r.ok THEN r.val ELSE <<"unknown">>
  ELSE IF type \in {"archive", "file"} THEN <<ref>>
  ELSE <<"unknown">>

\* executePackageScript, the lock record of an install: the source fields
\* of the recipe and the version resolved, or "unknown" for a recipe
\* without them.
installedRecord(known, type, ref, ok, recipeURL) ==
  IF known
  THEN [src_url |-> <<"url">>, src_type |-> <<type>>, src_ref |-> <<ref>>,
        src_ref_used |-> detectSourceVersion(type, ref, ok),
        recipe_url |-> recipeURL, recipe_sha256 |-> recipeNow]
  ELSE [src_url |-> <<"unknown">>, src_type |-> <<"unknown">>,
        src_ref |-> <<"unknown">>, src_ref_used |-> <<"unknown">>,
        recipe_url |-> recipeURL, recipe_sha256 |-> recipeNow]

recordInstall(known, type, ref, ok, recipeURL) ==
  /\ lockRec = NoRec
  /\ lockRec' = installedRecord(known, type, ref, ok, recipeURL)
  /\ UNCHANGED <<refs, recipeNow, update, hashVars, lockVars, scanVars, chainVars, flowVars>>

\* The maintainer of the source moves a ref.
push(ref, commit) ==
  /\ ~update.done
  /\ refs[ref] # commit
  /\ refs' = [refs EXCEPT ![ref] = commit]
  /\ UNCHANGED <<recipeNow, lockRec, update, hashVars, lockVars, scanVars, chainVars, flowVars>>

\* The repository serves another recipe.
publishRecipe(hash) ==
  /\ ~update.done
  /\ recipeNow # hash
  /\ recipeNow' = hash
  /\ UNCHANGED <<refs, lockRec, update, hashVars, lockVars, scanVars, chainVars, flowVars>>

\* The commit of the ref the record tracks.
getTrackedRefCommit(sourceRef, ok) ==
  IF Len(sourceRef) = 1 /\ sourceRef[1] \in Refs THEN getGitRefCommit(sourceRef[1], ok)
  ELSE NoVersion

\* getCurrentSourceVersion
getCurrentSourceVersion(sourceType, ok) ==
  IF sourceType = <<"git">> THEN getGitHeadCommit(ok)
  ELSE IF sourceType = <<"download">> THEN [ok |-> TRUE, val |-> <<"latest">>]
  ELSE NoVersion

\* strings.Join(reasons, ", ")
RECURSIVE JoinReasons(_)
JoinReasons(reasons) ==
  IF Len(reasons) = 0 THEN <<>>
  ELSE IF Len(reasons) = 1 THEN reasons
  ELSE <<Head(reasons), ", ">> \o JoinReasons(Tail(reasons))

\* A recipe that could not be fetched taken for a changed one.
recipeUpdatedOrUnreachable(rec, now, recipeOk) ==
  rec.recipe_url # <<>> /\ rec.recipe_url # <<"local">>
  /\ (~recipeOk \/ now # rec.recipe_sha256)

\* checkPackageForUpdate, the recipe check: err == nil and another hash.
recipeUpdated(rec, now, recipeOk) ==
  rec.recipe_url # <<>> /\ rec.recipe_url # <<"local">>
  /\ recipeOk /\ now # rec.recipe_sha256

\* The new version left as the source check set it.
resolvedVersionOnly(updateReasons, NewVersion) == NewVersion

\* checkPackageForUpdate: if update.NewVersion == "" { "latest" }
newVersionOrLatest(updateReasons, NewVersion) ==
  IF Len(updateReasons) # 0 /\ NewVersion = <<>> THEN <<"latest">> ELSE NewVersion

\* checkPackageForUpdate: the recipe check, then the source check; the error
\* returned is nil on every path.
PackageUpdate(lockData_, recipeOk, ok) ==
  LET fetched == lockData_.recipe_url # <<>> /\ lockData_.recipe_url # <<"local">>
      recipeReasons ==
        IF recipeUpdated(lockData_, recipeNow, recipeOk) THEN <<"recipe updated">> ELSE <<>>
      compared == lockData_.src_url # <<>> /\ lockData_.src_url # <<"unknown">>
      newSourceVersion == getCurrentSourceVersion(lockData_.src_type, ok)
      changed == compared /\ newSourceVersion.ok
                 /\ newSourceVersion.val # lockData_.src_ref_used
      updateReasons == recipeReasons \o (IF changed THEN <<"source updated">> ELSE <<>>)
      NewVersion == IF changed THEN newSourceVersion.val ELSE <<>>
  IN [done |-> TRUE,
      has |-> Len(updateReasons) # 0,
      CurrentVersion |-> lockData_.src_ref_used,
      NewVersion |-> IF Len(updateReasons) = 0 THEN <<>>
                     ELSE newVersionOrLatest(updateReasons, NewVersion),
      UpdateType |-> JoinReasons(updateReasons),
      err |-> "nil",
      fetch |-> IF ~fetched THEN "none" ELSE IF recipeOk THEN "ok" ELSE "failed",
      query |-> IF ~compared THEN "none"
                ELSE IF newSourceVersion.ok THEN "ok" ELSE "failed",
      by |-> "checkPackageForUpdate", net |-> <<recipeOk, ok>>, upToDate |-> FALSE]

checkPackageForUpdate(recipeOk, ok) ==
  /\ lockRec # NoRec
  /\ ~update.done
  /\ update' = PackageUpdate(lockRec, recipeOk, ok)
  /\ UNCHANGED <<refs, recipeNow, lockRec, hashVars, lockVars, scanVars, chainVars, flowVars>>

\* The result is shown and the command ends.
checkReturn ==
  /\ update.done
  /\ update' = NoUpdate
  /\ UNCHANGED <<refs, recipeNow, lockRec, hashVars, lockVars, scanVars, chainVars, flowVars>>

\* ------------------------------------------------- the core package check
\* The fields of the lock data the update check reads.
CheckedFields == {"src_url", "src_type", "src_ref", "src_ref_used", "recipe_url",
                  "recipe_sha256"}

\* The recipe URLs of a core package: one of them holds a "=".
CoreRecipeURLs == RecipeURLs \cup {<<"url", "=", "1">>}

\* executePackageScript: the arguments of createLockFile for the record.
lockArgsOf(rec) ==
  [f \in Range(LockFields) |-> IF f \in CheckedFields THEN rec[f] ELSE FixedArgs[f]]

\* executePackageScript: the install resolves the source and writes the lock
\* file of the package with createLockFile.
executePackageScript(known, type, ref, ok, recipeURL) ==
  /\ lockRec = NoRec
  /\ ~lockText.ok
  /\ lockRec' = installedRecord(known, type, ref, ok, recipeURL)
  /\ lockArgs' = lockArgsOf(lockRec')
  /\ lockText' = [ok |-> TRUE, by |-> "createLockFile", bytes |-> lockContent(lockArgs')]
  /\ UNCHANGED <<refs, recipeNow, update, lockLines, lockData, hashVars, scanVars,
                 chainVars, flowVars>>

\* strings.SplitN(line, "=", 2)
SplitNEq(s) ==
  IF \A i \in 1..Len(s) : s[i] # "=" THEN <<s>>
  ELSE LET i == CHOOSE j \in 1..Len(s) : s[j] = "=" /\ \A k \in 1..(j - 1) : s[k] # "="
       IN <<SubSeq(s, 1, i - 1), SubSeq(s, i + 1, Len(s))>>

\* readLockFileToMap: the loop over the lines; a key is the trimmed text in
\* front of the first "=" of its line.
RECURSIVE readMapLines(_, _)
readMapLines(lines, result) ==
  IF lines = <<>> THEN result
  ELSE LET line == TrimSpace(Head(lines))
           parts == SplitNEq(line)
       IN IF line = <<>> \/ HasPrefix(line, <<"#">>) THEN readMapLines(Tail(lines), result)
          ELSE IF Len(parts) = 2
          THEN readMapLines(Tail(lines),
                            Put(result, TrimSpace(parts[1]), TrimSpace(parts[2])))
          ELSE readMapLines(Tail(lines), result)

readLockFileToMap(content) == readMapLines(SplitLines(content), EmptyMap)

\* lockData["..."] of checkPackageForUpdate over the map of parseLockFile.
parsedLockData(data) == [f \in CheckedFields |-> Get(data, f)]

\* lockData["..."] of checkPackageForUpdate over the map of
\* readLockFileToMap: the key looked up is the text of the field name.
mappedLockData(data) ==
  [f \in CheckedFields |-> IF <<f>> \in DOMAIN data THEN data[<<f>>] ELSE <<>>]

\* checkCorePackageForUpdate: no lock file is no update; else the check of the
\* map read.
checkCorePackageForUpdate(recipeOk, ok) ==
  /\ ~update.done
  /\ update' = IF ~lockText.ok
               THEN [NoUpdate EXCEPT !.done = TRUE, !.err = "nil",
                                     !.by = "checkCorePackageForUpdate",
                                     !.net = <<recipeOk, ok>>]
               ELSE [PackageUpdate(mappedLockData(readLockFileToMap(lockText.bytes)),
                                   recipeOk, ok)
                       EXCEPT !.by = "checkCorePackageForUpdate"]
  /\ UNCHANGED <<refs, recipeNow, lockRec, hashVars, lockVars, scanVars, chainVars, flowVars>>

\* isPackageUpToDate: false without a lock file; else err == nil && !hasUpdate.
isPackageUpToDate(recipeOk, ok) ==
  /\ ~update.done
  /\ update' = IF ~lockText.ok
               THEN [NoUpdate EXCEPT !.done = TRUE, !.err = "nil",
                                     !.by = "isPackageUpToDate",
                                     !.net = <<recipeOk, ok>>]
               ELSE LET u == PackageUpdate(mappedLockData(readLockFileToMap(lockText.bytes)),
                                           recipeOk, ok)
                    IN [u EXCEPT !.by = "isPackageUpToDate",
                                 !.upToDate = (u.err = "nil" /\ ~u.has)]
  /\ UNCHANGED <<refs, recipeNow, lockRec, hashVars, lockVars, scanVars, chainVars, flowVars>>

\* The repository serves other bytes for the recipe of the package.
publishBytes(bytes) ==
  /\ lockRec # NoRec
  /\ ~update.done
  /\ recipe # bytes
  /\ recipe' = bytes
  /\ recipeNow' = computeContentHash(bytes).bytes
  /\ UNCHANGED <<recipe0, stripped, digest, refs, lockRec, update, lockVars, scanVars,
                 chainVars, flowVars>>

\* ------------------------------------------------------------- the scan
\* The packages that can have a lock file, by their rank in the order of
\* os.ReadDir, and what the check of a lock file comes to: parseLockFile
\* fails, or checkPackageForUpdate finds a reason, finds none, or reaches
\* neither repository.
Packages == 1..MaxPackages
Outcomes == {"unreadable", "update", "current", "unreachable"}
NoDir == [state |-> "missing", locks |-> {}, other |-> FALSE,
          outcome |-> [p \in Packages |-> "current"]]
NoScan == [pc |-> "idle", lockFiles |-> <<>>, i |-> 0, checked |-> {}, updates |-> <<>>,
           err |-> "none"]

\* The names os.ReadDir returns, sorted by filename: p.lock for a package,
\* and a file of another kind.
RECURSIVE SortedLocks(_, _)
SortedLocks(locks, from) ==
  IF from > MaxPackages THEN <<>>
  ELSE (IF from \in locks THEN <<[name |-> from, ext |-> ".lock"]>> ELSE <<>>)
       \o SortedLocks(locks, from + 1)
ReadDir(dir) ==
  (IF dir.other THEN <<[name |-> 0, ext |-> ".bak"]>> ELSE <<>>) \o SortedLocks(dir.locks, 1)

\* scanForUpdates up to the loop: the directory is listed and the lock files
\* are kept.
scanForUpdates ==
  /\ scan.pc = "idle"
  /\ scan' = IF locksDir.state = "missing"
             THEN [NoScan EXCEPT !.pc = "done", !.err = "nil"]
             ELSE IF locksDir.state = "denied"
             THEN [NoScan EXCEPT !.pc = "done", !.err = "error"]
             ELSE [NoScan EXCEPT !.pc = "loop", !.i = 1,
                     !.lockFiles = SelectSeq(ReadDir(locksDir), LAMBDA f : f.ext = ".lock")]
  /\ UNCHANGED <<locksDir, hashVars, lockVars, updVars, chainVars, flowVars>>

\* The loop left at the first lock file that cannot be read.
scanStepAborting ==
  /\ scan.pc = "loop"
  /\ IF scan.i > Len(scan.lockFiles)
     THEN scan' = [scan EXCEPT !.pc = "done", !.err = "nil"]
     ELSE LET packageName == scan.lockFiles[scan.i].name
              outcome == locksDir.outcome[packageName]
          IN IF outcome = "unreadable"
             THEN scan' = [scan EXCEPT !.pc = "done", !.err = "nil"]
             ELSE scan' = [scan EXCEPT !.i = scan.i + 1,
                             !.checked = scan.checked \cup {packageName},
                             !.updates = IF outcome = "update"
                                         THEN Append(scan.updates, packageName)
                                         ELSE scan.updates]
  /\ UNCHANGED <<locksDir, hashVars, lockVars, updVars, chainVars, flowVars>>

\* scanForUpdates, one turn of the loop: parseLockFile, then
\* checkPackageForUpdate, then the append; after the last file the return.
scanStep ==
  /\ scan.pc = "loop"
  /\ IF scan.i > Len(scan.lockFiles)
     THEN scan' = [scan EXCEPT !.pc = "done", !.err = "nil"]
     ELSE LET packageName == scan.lockFiles[scan.i].name
              outcome == locksDir.outcome[packageName]
          IN IF outcome = "unreadable"
             THEN scan' = [scan EXCEPT !.i = scan.i + 1]
             ELSE scan' = [scan EXCEPT !.i = scan.i + 1,
                             !.checked = scan.checked \cup {packageName},
                             !.updates = IF outcome = "update"
                                         THEN Append(scan.updates, packageName)
                                         ELSE scan.updates]
  /\ UNCHANGED <<locksDir, hashVars, lockVars, updVars, chainVars, flowVars>>

\* The caller has the list.
scanReturn ==
  /\ scan.pc = "done"
  /\ scan' = NoScan
  /\ UNCHANGED <<locksDir, hashVars, lockVars, updVars, chainVars, flowVars>>

\* ---------------------------------------------------------- specification
ChainInit ==
  /\ srvBox = NoDoc
  /\ srvPrev = [v \in 0..MaxVersion |-> NoDoc]
  /\ srvPub = NoKey
  /\ nextKey = 1
  /\ edits = 0
  /\ cacheBox = NoDoc
  /\ cacheStale = FALSE
  /\ pc = "idle"
  /\ vsrc = "none"
  /\ vsig = NoSig
  /\ vmeta = NoDoc
  /\ vlog = <<>>
  /\ vres = "none"
  /\ fret = NoFetch
  /\ bgPc = "idle"
  /\ bgDoc = NoDoc

FlowInit ==
  /\ flow = NoFlow
  /\ fpc = "idle"
  /\ stdin = Terminal
  /\ lock = NoLock

HashInit ==
  /\ recipe0 = <<>>
  /\ recipe = <<>>
  /\ stripped = NoBytes
  /\ digest = NoBytes

LockInit ==
  /\ lockArgs = FixedArgs
  /\ lockLines = <<>>
  /\ lockText = NoText
  /\ lockData = NoData

UpdateInit ==
  /\ refs = [r \in Refs |-> IF r = "HEAD" THEN CHOOSE c \in Commits : c[1] = "3" ELSE <<>>]
  /\ recipeNow = <<"h1">>
  /\ lockRec = NoRec
  /\ update = NoUpdate

ScanInit ==
  /\ locksDir = NoDir
  /\ scan = NoScan

Init == ChainInit /\ FlowInit /\ HashInit /\ LockInit /\ UpdateInit /\ ScanInit

\* The key chain: the maintainer's rotations and the verifications of the
\* main goroutine.
NextChain ==
  \/ \E arg \in 0..MaxVersion : Rotate(arg)
  \/ \E src \in {"local", "remote"}, sig \in SigInputs, got \in BOOLEAN :
       verifyRecipeIntegrity(src, sig, got)
  \/ verifyStep1
  \/ verifyStep2
  \/ verifyStep3
  \/ verifyStep4
  \/ verifyStep5
  \/ verifyReturn

Spec == Init /\ [][NextChain]_vars

\* The key chain over a source whose maintainer rotates with the tool's
\* default version and edits keys/pack.box by hand.
NextEdited ==
  \/ Rotate(0)
  \/ \E k \in Malformed : HandEdit(k)
  \/ \E src \in {"local", "remote"}, sig \in SigInputs, got \in BOOLEAN :
       verifyRecipeIntegrity(src, sig, got)
  \/ verifyStep1
  \/ verifyStep2
  \/ verifyStep3
  \/ verifyStep4
  \/ verifyStep5
  \/ verifyReturn

SpecEdited == Init /\ [][NextEdited]_vars

\* The key refresh: rotations, fetchPublicKeyFromRepo calls of the main
\* goroutine and the backgroundKeyRefresh goroutine.
NextRefresh ==
  \/ \E arg \in 0..MaxVersion : Rotate(arg)
  \/ fetchPublicKeyFromRepo
  \/ fetchReturn
  \/ fetchStep2
  \/ fetchStep3
  \/ fetchDone
  \/ bgFetchMetadata
  \/ bgFetchLegacy
  \/ bgTruncate
  \/ bgWrite
  \/ exitProcess
  \/ Tick

SpecRefresh == Init /\ [][NextRefresh]_vars

\* Install, update and uninstall of one package, with the verifications
\* they make.
NextInstall ==
  \/ fpc \in {"idle", "verify"} /\ Rotate(0)
  \/ openPackage
  \/ installPackageAutomatically
  \/ \E hasLocal \in BOOLEAN, config \in Configs, probe \in [Remotes -> Probes] :
       downloadFromSources(hasLocal, config, probe)
  \/ promptSourceSelection
  \/ \E ok \in BOOLEAN : downloadSelected(ok)
  \/ \E ok \in BOOLEAN : updatePackageFromOriginalSource(ok)
  \/ /\ fpc = "verify"
     /\ \E sig \in {Sig(nextKey - 1, TRUE, "ok"), Sig(0, TRUE, "ok")}, got \in BOOLEAN :
          verifyRecipeIntegrity(flow.src, sig, got)
  \/ verifyStep1 \/ verifyStep2 \/ verifyStep3 \/ verifyStep4 \/ verifyStep5
  \/ verifyReturned
  \/ overridePrompt
  \/ \E editorOk \in BOOLEAN : showRecipeAndConfirm(editorOk)
  \/ \E out \in {"nobox", "failed", "ok"} : runScript(out)
  \/ \E ok \in BOOLEAN : createLockFile(ok)
  \/ \E ok \in BOOLEAN : executeUninstallScript(ok)
  \/ \E out \in {"nobox", "failed", "ok"} : runUninstall(out)
  \/ \E ok \in BOOLEAN : removeLock(ok)
  \/ flowReturn

SpecInstall == Init /\ [][NextInstall]_vars

\* The content hash of every recipe of up to MaxRecipeLen symbols, as it is
\* and with a hash-field line added.
InitHash ==
  /\ ChainInit /\ FlowInit /\ LockInit /\ UpdateInit /\ ScanInit
  /\ recipe0 \in Recipes
  /\ recipe = recipe0
  /\ stripped = NoBytes
  /\ digest = NoBytes

NextHash ==
  \/ \E at \in 1..(MaxRecipeLen + 2), indent \in Indents, value \in HashValues :
       insertHashField(at, indent, value)
  \/ calculateRecipeVersion

SpecHash == InitHash /\ [][NextHash]_vars

\* The lock file written by createLockFile for every value of the varying
\* fields, or left by an older version, and read back by parseLockFile.
InitLock ==
  /\ ChainInit /\ FlowInit /\ HashInit /\ UpdateInit /\ ScanInit
  /\ lockArgs \in {[f \in Range(LockFields) |-> IF f \in VaryingFields THEN a[f] ELSE FixedArgs[f]] :
                    a \in [VaryingFields -> Values]}
  /\ lockLines = <<>>
  /\ lockText = NoText
  /\ lockData = NoData

NextLock ==
  \/ writeLockFile
  \/ \E n \in 0..MaxLockLines : \E lines \in LinesOfLen(n) : keepLegacyFile(lines)
  \/ parseLockFile

SpecLock == InitLock /\ [][NextLock]_vars

\* The update check of an installed package while the source repository and
\* the recipe repository move on.
NextUpdate ==
  \/ \E known, ok \in BOOLEAN, type \in SourceTypes, ref \in Refs, recipeURL \in RecipeURLs :
       recordInstall(known, type, ref, ok, recipeURL)
  \/ \E ref \in Refs, commit \in Commits : push(ref, commit)
  \/ \E hash \in Hashes : publishRecipe(hash)
  \/ \E recipeOk, ok \in BOOLEAN : checkPackageForUpdate(recipeOk, ok)
  \/ checkReturn

SpecUpdate == Init /\ [][NextUpdate]_vars

\* The core packages: installed, then checked by the update command and by
\* the bootstrap.
NextCore ==
  \/ \E known, ok \in BOOLEAN, type \in SourceTypes, ref \in Refs, recipeURL \in CoreRecipeURLs :
       executePackageScript(known, type, ref, ok, recipeURL)
  \/ \E ref \in Refs, commit \in Commits : push(ref, commit)
  \/ \E hash \in Hashes : publishRecipe(hash)
  \/ \E recipeOk, ok \in BOOLEAN : checkCorePackageForUpdate(recipeOk, ok)
  \/ \E recipeOk, ok \in BOOLEAN : isPackageUpToDate(recipeOk, ok)
  \/ checkReturn

SpecCore == Init /\ [][NextCore]_vars

\* The scan of every locks directory of up to MaxPackages lock files.
InitScan ==
  /\ ChainInit /\ FlowInit /\ HashInit /\ LockInit /\ UpdateInit
  /\ locksDir \in [state : {"missing", "denied", "listed"}, locks : SUBSET Packages,
                    other : BOOLEAN, outcome : [Packages -> Outcomes]]
  /\ locksDir.state # "listed" => locksDir = [NoDir EXCEPT !.state = locksDir.state]
  /\ \A p \in Packages : p \notin locksDir.locks => locksDir.outcome[p] = "current"
  /\ scan = NoScan

NextScan ==
  \/ scanForUpdates
  \/ scanStep
  \/ scanReturn

SpecScan == InitScan /\ [][NextScan]_vars

\* The recipe check of a package installed, without an edit, from each
\* recipe the repository can serve, while the repository serves others.
InitRecipe ==
  /\ ChainInit /\ FlowInit /\ LockInit /\ ScanInit
  /\ recipe0 \in Served
  /\ recipe = recipe0
  /\ stripped = NoBytes
  /\ digest = NoBytes
  /\ refs = [r \in Refs |-> IF r = "HEAD" THEN CHOOSE c \in Commits : c[1] = "3" ELSE <<>>]
  /\ recipeNow = computeContentHash(recipe0).bytes
  /\ lockRec = NoRec
  /\ update = NoUpdate

NextRecipe ==
  \/ \E recipeURL \in RecipeURLs : recordInstall(TRUE, "git", "HEAD", TRUE, recipeURL)
  \/ \E bytes \in Served : publishBytes(bytes)
  \/ \E recipeOk \in BOOLEAN : checkPackageForUpdate(recipeOk, TRUE)
  \/ checkReturn

SpecRecipe == InitRecipe /\ [][NextRecipe]_vars

\* =================================================================== claims
\* The entries of a log that deliver a key to the chain: a cache read or a
\* GET that succeeded.
Delivered(log) ==
  {i \in 1..Len(log) : log[i].op \in {"read", "fetch"} /\ log[i].ok}
Tries(log) == {i \in 1..Len(log) : log[i].op = "try"}
RemoteDone == pc = "vdone" /\ vsrc = "remote"
\* The signature is a well-formed one made over the recipe bytes.
GoodSig == vsig.shape = "ok" /\ vsig.over

\* C1: a remote recipe is accepted only if its signature is a valid one over
\* the recipe bytes made with a key the chain delivered to this call: the
\* cached key, the fetched metadata key, a previous-version key, the legacy
\* key or the re-fetched key.  No other signature is accepted.
C1_AcceptsOnlyChainKeys ==
  (RemoteDone /\ vres = "nil") =>
    /\ GoodSig
    /\ \E i \in Delivered(vlog) :
         /\ vlog[i].cand \in {"cached", "meta", "prev", "legacy", "refetch"}
         /\ vlog[i].key = Key(vsig.signer)

\* A remote recipe accepted on a previous-version key after the cached and
\* the fetched key failed.
C1_Witness ==
  /\ RemoteDone /\ vres = "nil"
  /\ vlog[Len(vlog)].cand = "prev"
  /\ \E i \in Tries(vlog) : vlog[i].cand = "cached"

\* C2: a well-formed signature over the recipe made with a key the trust
\* chain reaches (the cached key read by the call, the key of the metadata
\* it fetched, or the key of a previous version it fetched) is accepted.
C2_ReachableKeyAccepted ==
  (/\ RemoteDone
   /\ GoodSig
   /\ \E i \in Delivered(vlog) :
        /\ vlog[i].cand \in {"cached", "meta", "prev"}
        /\ vlog[i].key = Key(vsig.signer))
  => vres = "nil"

\* Accepted on the key three versions behind the fetched metadata, after
\* nearer previous keys were tried.
C2_Witness ==
  /\ RemoteDone /\ vres = "nil"
  /\ vlog[Len(vlog)].cand = "prev"
  /\ vlog[Len(vlog)].ver = vmeta.version - Lookback
  /\ \E i \in Tries(vlog) : vlog[i].cand = "prev" /\ ~vlog[i].ok

\* C5: verification never panics, and it ends in an error when the
\* signature is not base64 or not 64 bytes, when no key was delivered at
\* all, and when no delivered key made the signature; a try of a key text
\* that is not base64 or not 32 bytes fails.
C5_MalformedInputFails ==
  /\ vres # "panic"
  /\ \A i \in Tries(vlog) : (~vlog[i].key.b64 \/ vlog[i].key.size # PublicKeySize) => ~vlog[i].ok
  /\ RemoteDone =>
       /\ vres \in {"nil", "error"}
       /\ vsig.shape # "ok" => vres = "error"
       /\ Delivered(vlog) = {} => vres = "error"
       /\ (\A i \in Delivered(vlog) : vlog[i].key # Key(vsig.signer)) => vres = "error"

\* A verification that tried a key text of the wrong size and failed.
C5_Witness ==
  /\ RemoteDone /\ vres = "error"
  /\ \E i \in Tries(vlog) : vlog[i].key = Pad31

\* C6: the verification of a recipe of the local source succeeds at once:
\* no signature download, no cache read, no key fetch, no cache change.
C6_LocalBypass ==
  [][(pc = "idle" /\ vsrc' = "local") =>
       (pc' = "vdone" /\ vres' = "nil" /\ vlog' = <<>> /\ cacheVars' = cacheVars)]_vars

\* A local verification done while the cache holds a key.
C6_Witness ==
  pc = "vdone" /\ vsrc = "local" /\ vres = "nil" /\ cacheBox.file = "doc"

\* The GETs of previous-version documents, in order.
PrevFetches == SelectSeq(vlog, LAMBDA e : e.op = "fetch" /\ e.cand = "prev")
PrevTries == SelectSeq(vlog, LAMBDA e : e.op = "try" /\ e.cand = "prev")
PrevGot == SelectSeq(PrevFetches, LAMBDA e : e.ok)

\* The place of a candidate in the chain.
Rank(cand) ==
  IF cand \in {"sig", "cached"} THEN 1
  ELSE IF cand = "meta" THEN 2
  ELSE IF cand = "prev" THEN 3
  ELSE IF cand = "legacy" THEN 4
  ELSE 5

\* C7: candidates are taken in the order cached, metadata, previous
\* versions (decreasing), legacy, re-fetched; every try follows the delivery
\* of its key; the chain stops at the first key that validates: nothing is
\* fetched or tried after it.
C7_FixedOrder ==
  /\ \A i, j \in 1..Len(vlog) : i < j => Rank(vlog[i].cand) <= Rank(vlog[j].cand)
  /\ \A i, j \in Tries(vlog) :
       i < j => \/ Rank(vlog[i].cand) < Rank(vlog[j].cand)
                \/ vlog[i].cand = "prev" /\ vlog[j].cand = "prev" /\ vlog[i].ver > vlog[j].ver
  /\ \A i \in Tries(vlog) :
       /\ \E j \in Delivered(vlog) :
            j < i /\ vlog[j].cand = vlog[i].cand /\ vlog[j].key = vlog[i].key
       /\ vlog[i].ok => i = Len(vlog)
  /\ vres = "nil" /\ vsrc = "remote" => vlog[Len(vlog)].op = "try" /\ vlog[Len(vlog)].ok

\* Accepted on the first previous key after the cached key and the
\* metadata key failed; the second previous key, fetched as well, is never
\* tried.
C7_Witness ==
  /\ RemoteDone /\ vres = "nil"
  /\ \E i \in Tries(vlog) : vlog[i].cand = "cached"
  /\ \E i \in Tries(vlog) : vlog[i].cand = "meta"
  /\ Len(PrevTries) = 1
  /\ Len(PrevGot) = 2

\* C8: with v the version of the fetched metadata, the previous-version
\* documents requested are v-1, v-2, v-3 as far as they are >= 0, in that
\* order and none further back; the keys tried are those whose fetch
\* succeeded, in that order, a failed fetch being skipped.
C8_BoundedLookback ==
  /\ \A i \in 1..Len(PrevFetches) :
       /\ PrevFetches[i].ver = vmeta.version - i
       /\ PrevFetches[i].ver >= 0
       /\ vmeta.version - PrevFetches[i].ver <= 3
  /\ Len(PrevFetches) <= 3
  /\ pc \in {"v4", "v5", "vdone"} /\ vmeta.file = "doc" /\ vlog[Len(vlog)].cand # "meta" =>
       Len(PrevFetches) = (IF vmeta.version < 3 THEN vmeta.version ELSE 3)
  /\ Len(PrevTries) <= Len(PrevGot)
  /\ \A i \in 1..Len(PrevTries) :
       PrevTries[i].ver = PrevGot[i].ver /\ PrevTries[i].key = PrevGot[i].key
  /\ pc \in {"v4", "v5"} => Len(PrevTries) = Len(PrevGot)

\* From version 4 the documents 3, 2 and 1 were requested, one fetch
\* failed, and a key fetched after the failure was tried.
C8_Witness ==
  /\ vmeta.version = 4
  /\ Len(PrevFetches) = 3
  /\ \E i, j \in 1..Len(PrevFetches) : i < j /\ ~PrevFetches[i].ok /\ PrevFetches[j].ok
  /\ Len(PrevTries) = Len(PrevGot)

C10_CachedVersionMonotonic ==
  [][(cacheBox.file = "doc" /\ cacheBox'.file = "doc") =>
       cacheBox'.version >= cacheBox.version]_vars

\* The operator has answered y or yes to "continue anyway? [y/N]".
Overridden == flow.override \in {"y", "yes"} /\ stdin.tty
\* An install or update whose verification failed.
FailedVerification ==
  flow.kind \in {"install", "auto", "update"} /\ flow.verified = "error"

\* C3: in install and update, after a failed verification, the script is
\* run and the lock file written only once the operator has answered y or
\* yes; with any other answer, the empty one and a read error included, the
\* operation ends in an error, no script is run and the lock file is neither
\* written nor changed.
C3_OverrideRequired ==
  /\ []((FailedVerification /\ (flow.ran \/ flow.wrote \/ fpc \in {"exec", "lock"}))
          => Overridden)
  /\ []((FailedVerification /\ fpc = "done" /\ ~Overridden)
          => (flow.res = "error" /\ ~flow.ran /\ ~flow.wrote))
  /\ [][(FailedVerification /\ ~Overridden) => lock' = lock]_vars

\* An update whose verification failed, overridden with "yes": the script
\* has run and the lock file is written.
C3_Witness ==
  /\ fpc = "done" /\ flow.kind = "update"
  /\ flow.verified = "error" /\ flow.override = "yes"
  /\ flow.ran /\ flow.wrote

\* C4: whenever a recipe of a remote source has been handed to the script
\* runtime, the operation has verified its signature before, or the
\* operator has overridden the failed verification.
C4_RemoteRunVerified ==
  (flow.ran /\ flow.src = "remote") =>
    (flow.verified = "nil" \/ (flow.verified = "error" /\ flow.override \in {"y", "yes"}))

\* C11: the content hash of a recipe does not depend on the presence of a
\* hash-field line: with such a line put at any line position, under any
\* indentation and with any value, the digest is that of the recipe as it
\* was; and stripping what was stripped changes nothing.
C11_HashIgnoresHashField ==
  digest.ok =>
    /\ digest = computeContentHash(recipe0)
    /\ removeCSHA256Field(stripped.bytes) = stripped.bytes

\* The digest of a recipe of two lines without hash field, taken after an
\* indented hash-field line was put between them.
C11_Witness ==
  /\ digest.ok
  /\ recipe0 = <<"a", "\n", "a">>
  /\ recipe = <<"a", "\n", "\t", " ", "H", " ", "a", "\n", "a">>
  /\ stripped.bytes = recipe0


\* ---- source discovery and selection ----

Hosting(found) == {r \in Range(found.config) : found.probe[r] = "200"}

\* The position of a repository in the configuration.
ConfigIndex(found, r) == CHOOSE i \in 1..Len(found.config) : found.config[i] = r

\* The remote sources of the list, in the order of the list.
ListedRemotes(found) == SelectSeq(found.sources, LAMBDA x : x # "local")

\* C12: findAvailableSources lists a configured remote if and only if its
\* probe answered 200 (another status or a failed request leaves it out
\* without an error), each once, in the order of the configuration, and the
\* list is empty when no source hosts the package.
C12_SourcesAreTheHosts ==
  LET found == flow.found
      remotes == ListedRemotes(found)
  IN /\ Range(remotes) = Hosting(found)
     /\ Len(remotes) = Cardinality(Hosting(found))
     /\ \A i, j \in 1..Len(remotes) :
          i < j => ConfigIndex(found, remotes[i]) < ConfigIndex(found, remotes[j])
     /\ ("local" \in Range(found.sources)) = found.local
     /\ (~found.local /\ Hosting(found) = {}) => found.sources = <<>>

C12_Witness ==
  /\ fpc = "select"
  /\ ~flow.found.local
  /\ flow.found.config = <<"r2", "r1">>
  /\ flow.found.probe = [r \in Remotes |-> "200"]
  /\ flow.found.sources = <<"r2", "r1">>

\* C13 as stated: when the local override directory holds the recipe, the
\* local source is the only candidate and the operator is not prompted.
C13_LocalIsSoleCandidate ==
  flow.found.local => flow.found.sources = <<"local">> /\ ~flow.found.prompted

\* C13 amended: when the local override directory holds the recipe, the
\* local source is the first candidate, the remotes that host the package
\* follow it, and the operator is prompted exactly when a remote follows;
\* the empty line selects the local source.
C13_LocalIsFirstCandidate ==
  flow.found.local =>
    /\ Head(flow.found.sources) = "local"
    /\ Range(Tail(flow.found.sources)) = Hosting(flow.found)
    /\ fpc = "fetch" =>
         /\ flow.found.prompted = (Hosting(flow.found) # {})
         /\ (flow.found.prompted /\ flow.found.line = "") => flow.name = "local"

C13_Witness ==
  /\ fpc = "fetch"
  /\ flow.found.local
  /\ flow.found.sources = <<"local", "r1">>
  /\ flow.found.prompted
  /\ flow.found.line = "2"
  /\ flow.name = "r1"

\* C14: without a candidate downloadFromSources ends with the "not found"
\* error, which no other failure gives, having fetched nothing, run no script
\* and written no lock; a single candidate is selected without a prompt, and
\* the operator is prompted only when there are several.
C14_NoneFailsOneIsTaken ==
  LET found == flow.found
  IN /\ flow.res = "not found" <=>
          (fpc = "done" /\ flow.kind \in {"install", "auto"} /\ ~flow.fetched
             /\ found.sources = <<>> /\ flow.name = "none")
     /\ flow.res = "not found" =>
          ~found.prompted /\ flow.verified = "none" /\ ~flow.ran /\ ~flow.wrote
     /\ (fpc = "fetch" /\ Len(found.sources) = 1) =>
          ~found.prompted /\ flow.name = found.sources[1]
     /\ found.prompted <=> (fpc \in {"fetch", "done"} /\ Len(found.sources) > 1)

C14_Witness ==
  /\ fpc = "done"
  /\ flow.res = "not found"
  /\ flow.found.config = <<"r1", "r2">>
  /\ flow.found.probe = [r \in Remotes |-> IF r = "r1" THEN "404" ELSE "error"]

\* The number a line of digits stands for, -1 for another line.
LineNumber(line) ==
  IF \E k \in 0..9 : Itoa(k) = Text(line)
  THEN CHOOSE k \in 0..9 : Itoa(k) = Text(line)
  ELSE -1

\* C15: over n > 1 candidates the empty line selects the first, a number k
\* of 1..n the k-th, and any other line ends the operation with the "invalid
\* selection" error before a recipe is fetched, verified or run.
C15_SelectionByNumber ==
  LET found == flow.found
      n == Len(found.sources)
      k == IF found.line = "" THEN 1 ELSE LineNumber(found.line)
  IN found.prompted =>
       /\ n > 1
       /\ IF k \in 1..n
          THEN flow.name = found.sources[k] /\ flow.res # "invalid selection"
          ELSE /\ fpc = "done" /\ flow.res = "invalid selection"
               /\ flow.name = "none" /\ ~flow.fetched /\ flow.verified = "none"
               /\ ~flow.ran /\ ~flow.wrote

C15_Witness ==
  /\ fpc = "fetch"
  /\ flow.found.prompted
  /\ flow.found.sources = <<"local", "r2", "r1">>
  /\ flow.found.line = "3"
  /\ flow.name = "r1"

\* ---- the lock file ----

\* The operation ends here with nil, its write to the locks directory done.
Succeeds(kinds) ==
  fpc # "done" /\ fpc' = "done" /\ flow'.kind \in kinds /\ flow'.res = "nil" /\ flow'.wrote

\* C16: the lock file of the package, one file at one path, exists after an
\* install or an update that succeeded and names the source of that
\* operation, is gone after an uninstall that succeeded, and is left as it
\* was by every other step: an operation whose script run fails, or that
\* fails before the run, changes nothing of it.
C16_LockLifecycle ==
  [][/\ Succeeds({"install", "auto", "update"}) =>
          lock' = [lock' EXCEPT !.file = "lock", !.repo = flow.name]
     /\ Succeeds({"uninstall"}) => lock' = NoLock
     /\ lock' # lock =>
          /\ fpc \in {"lock", "unlock"} /\ flow.ran /\ flow.res = "none"
          /\ flow'.res = "nil" /\ flow'.wrote
     /\ flow'.res \notin {"none", "nil"} => (lock' = lock /\ ~flow'.wrote)
     /\ lock'.file \in {"none", "lock"}
    ]_vars

C16_Witness ==
  /\ fpc = "done"
  /\ flow.kind = "update"
  /\ flow.ran /\ flow.res = "error"
  /\ lock.file = "lock" /\ lock.repo = "r2" /\ lock.trust = "ed25519"

\* C18: the lock file an install or an update wrote says ed25519 only when
\* the recipe of that operation came from a remote source and passed the
\* signature verification, and says local or bypassed for a recipe of the
\* local source.
C18_TrustStateTold ==
  (fpc = "done" /\ flow.kind \in {"install", "auto", "update"} /\ flow.wrote) =>
    /\ lock.trust = "ed25519" => (flow.src = "remote" /\ flow.verified = "nil")
    /\ flow.src = "local" => lock.trust \in {"local", "bypassed"}

\* The lines of the file that give the key a value parseLockFile reads: a
\* line without a value is not a field.
LinesOf(key) == {i \in 1..Len(lockLines) : lockLines[i].key = key /\ lockLines[i].value # <<>>}
First(S) == CHOOSE i \in S : \A j \in S : i <= j
Last(S) == CHOOSE i \in S : \A j \in S : j <= i

\* C17: parseLockFile reads from the file createLockFile wrote the value
\* passed for each of the thirteen fields; in a file of an older version a
\* legacy key (source, source_type, source_version, sha256) gives its
\* canonical key (src_url, src_type, src_ref_used, recipe_sha256) its value
\* when no line has the canonical key, and the line with the canonical key
\* gives the value when both are there, whichever comes first.
C17_LockRoundTrip ==
  lockData.ok =>
    /\ lockText.by = "createLockFile" =>
         \A f \in Range(LockFields) : Get(lockData.map, f) = lockArgs[f]
    /\ lockText.by = "legacy" =>
         \A k \in LegacyKeys :
           LET got == Get(lockData.map, Canonical(k))
           IN IF LinesOf(Canonical(k)) # {}
              THEN got = lockLines[Last(LinesOf(Canonical(k)))].value
              ELSE IF LinesOf(k) # {} THEN got = lockLines[First(LinesOf(k))].value
              ELSE got = <<>>

C17_Witness ==
  /\ lockData.ok
  /\ lockLines = <<[key |-> "src_url", value |-> <<"a">>],
                   [key |-> "source", value |-> <<"a", " ", "a">>]>>
  /\ lockData.map["src_url"] = <<"a">>
  /\ lockData.map["source"] = <<"a", " ", "a">>

\* ---- the update check ----

\* C19: for a git record whose source URL is known, when the query of the
\* tracked ref (src_ref) succeeds, the check compares the abbreviated commit
\* of that ref with src_ref_used: "source updated" is a reason, with that id
\* as the new version, exactly when they differ.
C19_TrackedRefCompared ==
  LET current == getTrackedRefCommit(lockRec.src_ref, TRUE)
  IN (update.done /\ lockRec.src_type = <<"git">> /\ update.query = "ok" /\ current.ok) =>
       IF current.val # lockRec.src_ref_used
       THEN "source updated" \in Range(update.UpdateType) /\ update.NewVersion = current.val
       ELSE "source updated" \notin Range(update.UpdateType)

\* C20: for a record whose source type is not git the check never gives the
\* reason "source updated".
C20_NonGitNeverUpdated ==
  (update.done /\ lockRec.src_type # <<"git">>) =>
    "source updated" \notin Range(update.UpdateType)

\* The reasons of the result, as the two checks of the record find them in
\* the repositories.
RecipeReason == update.fetch = "ok" /\ recipeNow # lockRec.recipe_sha256
ResolvedSource ==
  IF lockRec.src_type = <<"git">> THEN Abbrev(refs["HEAD"]) ELSE <<"latest">>
SourceReason == update.query = "ok" /\ ResolvedSource # lockRec.src_ref_used

Readable == {p \in locksDir.locks : locksDir.outcome[p] # "unreadable"}

\* C23: a scan of a directory that could be listed returns no error, has
\* evaluated every lock file that can be read whatever the others came to,
\* and returns the packages whose own check found an update, each once.
C23_ScanIsIndependent ==
  (scan.pc = "done" /\ locksDir.state = "listed") =>
    /\ scan.err = "nil"
    /\ scan.checked = Readable
    /\ Range(scan.updates) = {p \in locksDir.locks : locksDir.outcome[p] = "update"}
    /\ Len(scan.updates) = Cardinality(Range(scan.updates))

C23_Witness ==
  /\ scan.pc = "done"
  /\ locksDir.locks = {1, 2, 3}
  /\ locksDir.other
  /\ locksDir.outcome = [p \in Packages |->
                           IF p = 1 THEN "update" ELSE IF p = 2 THEN "unreadable" ELSE "update"]
  /\ scan.updates = <<1, 3>>

\* ---- the recipe check ----

\* The text of the lines of a recipe that are not a hash field, in their
\* order.
OtherLines(bytes) ==
  JoinLines(SelectSeq(SplitLines(bytes),
            LAMBDA line : ~(\E n \in 0..Len(line) :
                              /\ \A k \in 1..n : line[k] \in {" ", "\t"}
                              /\ Len(line) >= n + 3
                              /\ line[n + 1] = "H" /\ line[n + 2] = " "
                              /\ \E k \in (n + 3)..Len(line) : ~IsSpace(line[k]))))

\* C24: for a package installed without an edit from the recipe recipe0,
\* the check that fetched the recipe now served gives "recipe updated"
\* exactly when the two differ in a line that is not a hash field: never
\* for the same bytes, with or without a hash field.
C24_RecipeReasonIsContentChange ==
  (update.done /\ update.fetch = "ok") =>
    /\ lockRec.recipe_sha256 = computeContentHash(recipe0).bytes
    /\ ("recipe updated" \in Range(update.UpdateType)) = (OtherLines(recipe) # OtherLines(recipe0))
    /\ recipe = recipe0 => "recipe updated" \notin Range(update.UpdateType)

C24_Witness ==
  /\ update.done /\ update.fetch = "ok"
  /\ recipe0 = <<"a">>
  /\ recipe = <<" ", "H", " ", "H", "\n", "a">>
  /\ ~update.has

\* ---- the update of a package ----

\* C26: an update looks for no source and prompts for none, fetches the
\* recipe from the repository the lock file names (the local directory for
\* "local"), and the lock file it writes names the same repository.
C26_UpdateFromOriginalSource ==
  [][flow'.kind = "update" =>
       /\ flow'.found = NoFound
       /\ flow'.fetched => (lock.file = "lock" /\ flow'.name = lock.repo
                            /\ flow'.src = SourceType(lock.repo))
       /\ lock' # lock => (flow'.wrote /\ lock'.file = "lock" /\ lock'.repo = lock.repo)
    ]_vars

C26_Witness ==
  /\ fpc = "done"
  /\ flow.kind = "update" /\ flow.wrote /\ flow.res = "nil"
  /\ flow.name = "r2"
  /\ lock.repo = "r2"

\* ---- the addresses of a recipe ----

\* C25: the signature that verifies a recipe fetched from a remote source
\* at the URL u is fetched from u followed by ".sig".
C25_SignatureBesideRecipe ==
  flow.sigURL # <<>> => flow.sigURL = flow.url \o <<".sig">>

\* C29: the recipe_url in the lock file of a package installed from a
\* remote source is the URL the recipe was fetched from in that install.
C29_RecipeURLIsFetchedURL ==
  (fpc = "done" /\ flow.kind \in {"install", "auto"} /\ flow.wrote /\ flow.src = "remote") =>
    lock.recipe_url = flow.url

\* ---- the rotation of the key ----

\* C27: a rotation without a version argument over a published key document
\* publishes the version after the one it found, saves the outgoing
\* document as pack_v<that version>.box, and overwrites no backup file.
C27_AutoRotationIncrements ==
  [][(nextKey' # nextKey /\ srvBox.file = "doc") =>
       /\ srvBox'.version = srvBox.version + 1
       /\ srvPrev[srvBox.version] = NoDoc
       /\ srvPrev' = [srvPrev EXCEPT ![srvBox.version] = srvBox]
    ]_vars
\* C28: over a lock file that createLockFile wrote, the core package check
\* reports an update exactly when the check of the record parseLockFile
\* reads from the file does, and isPackageUpToDate answers true only when
\* that check finds no update.
ParsedUpdate ==
  PackageUpdate(parsedLockData(parseLockData(lockText.bytes)), update.net[1], update.net[2])
C28_CoreCheckAgrees ==
  (update.done /\ lockText.ok /\ lockText.by = "createLockFile") =>
    /\ update.by = "checkCorePackageForUpdate" => update.has = ParsedUpdate.has
    /\ update.by = "isPackageUpToDate" => (update.upToDate => ~ParsedUpdate.has)

\* C30: when verifyWithKeyChain returns its failure, the cache of the source
\* holds nothing or the key metadata the source serves at the final
\* re-fetch: neither the record cached before the call nor the legacy key
\* of step 4 is left in it.
C30_FailureLeavesRefetchedKey ==
  [][(pc = "v5" /\ pc' = "vdone" /\ vres' = "error") =>
       \/ cacheBox' = NoDoc /\ ~vlog'[Len(vlog')].ok
       \/ cacheBox' = srvBox /\ MetadataOk(srvBox)
     ]_vars
\* A failed verification that began with a cached key and ended with the
\* record of a later rotation in the cache.
C30_Witness ==
  /\ pc = "vdone" /\ vres = "error"
  /\ Len(vlog) >= 3 /\ vlog[2].op = "read" /\ vlog[2].ok
  /\ vlog[Len(vlog)].cand = "refetch"
  /\ cacheBox.file = "doc" /\ cacheBox.key # vlog[2].key

====
